---------------------------- MODULE Spec2Model ----------------------------
(***************************************************************************)
(* Model of the Mindflow diagram editor's interaction core: the canvas     *)
(* store (useCanvasStore.ts), the node / resize-handle / canvas event      *)
(* handlers that drive it, and the toolbar and property-panel handlers.    *)
(*                                                                         *)
(* JavaScript numbers are modelled as exact rationals <<n, d>> (d > 0,     *)
(* lowest terms); the only irrational operation, Math.hypot, is rounded    *)
(* down to a multiple of 1/HypotScale.  uuidv4() is a fresh-id counter.    *)
(***************************************************************************)
EXTENDS Integers, Sequences, FiniteSets, TLC

VARIABLES
    canvas,          \* the state held by useCanvasStore (a record of its fields)
    pendingUpdate,   \* arguments held by debouncedUpdateNode, or NoUpdate
    docSyncPending,  \* debouncedUpdateDocument has a call scheduled
    unsavedChanges,  \* activeDocumentId is in useDocumentStore.unsavedChanges
    mounted,         \* per mounted CanvasNode: the node captured by handleResize
    nextId,          \* number of uuids handed out so far
    rt,              \* progress of the undo/redo round-trip scenario
    documentStore,   \* the state held by useDocumentStore
    bridge,          \* updateDocument's lastDocumentState and its setTimeout calls
    network,         \* the session, debouncedAutoSave's timer, requests in flight
    react            \* useState of AppLayout, Toolbar and Canvas

vars == <<canvas, pendingUpdate, docSyncPending, unsavedChanges, mounted, nextId, rt,
          documentStore, bridge, network, react>>

-----------------------------------------------------------------------------
(* Bounds of the model *)

MaxIds == 4           \* uuids available to nodes and edges together
MaxNodes == 3         \* nodes on the canvas of the scene-graph specification
MaxFrames == 52       \* resize frames of one drag of a resize handle
MaxSnapshots == 3     \* longest history built by moving and resizing nodes
MaxCommits == 2       \* longest history built by the scene-graph specification
HypotScale == 16      \* Math.hypot is rounded down to a multiple of 1/HypotScale
MaxDen == 20          \* largest denominator a viewport number may take
MaxPan == 400         \* largest |viewport.x|, |viewport.y| explored

-----------------------------------------------------------------------------
(* Rational arithmetic: the model of JavaScript's number *)

Abs(i) == IF i < 0 THEN -i ELSE i

RECURSIVE Gcd(_, _)
Gcd(a, b) == IF b = 0 THEN a ELSE Gcd(b, a % b)

Sign(d) == IF d < 0 THEN -1 ELSE 1
Reduce(n, d, g) == <<(Sign(d) * n) \div g, (Sign(d) * d) \div g>>
Norm(n, d) == Reduce(n, d, Gcd(Abs(n), Abs(d)))

R(i) == <<i, 1>>
Frac(n, d) == Norm(n, d)

AddOver(a, b, g) ==
    Norm(a[1] * (b[2] \div g) + b[1] * (a[2] \div g), (a[2] \div g) * b[2])
RAdd(a, b) == AddOver(a, b, Gcd(a[2], b[2]))
RNeg(a) == <<-a[1], a[2]>>
RSub(a, b) == RAdd(a, RNeg(b))
MulOver(a, b, g1, g2) ==
    Norm((a[1] \div g1) * (b[1] \div g2), (a[2] \div g2) * (b[2] \div g1))
RMul(a, b) == MulOver(a, b, Gcd(Abs(a[1]), b[2]), Gcd(Abs(b[1]), a[2]))
RDiv(a, b) == RMul(a, Norm(b[2], b[1]))
RLt(a, b) == a[1] * b[2] < b[1] * a[2]
RLe(a, b) == a[1] * b[2] <= b[1] * a[2]
RAbs(a) == <<Abs(a[1]), a[2]>>
RMax(a, b) == IF RLt(a, b) THEN b ELSE a
RMin(a, b) == IF RLt(b, a) THEN b ELSE a

RECURSIVE SqrtSearch(_, _, _)
SqrtSearch(n, lo, hi) ==
    IF lo >= hi THEN lo
    ELSE IF ((lo + hi + 1) \div 2) * ((lo + hi + 1) \div 2) <= n
         THEN SqrtSearch(n, (lo + hi + 1) \div 2, hi)
         ELSE SqrtSearch(n, lo, ((lo + hi + 1) \div 2) - 1)

ISqrt(n) == SqrtSearch(n, 0, IF n < 46340 THEN n ELSE 46340)

\* Math.hypot(dx, dy), rounded down to a multiple of 1/(q * HypotScale) where
\* q is the denominator of dx^2 + dy^2; exact when that sum is a square.
RootOf(r, exact) ==
    IF exact * exact = r[1] * r[2]
    THEN Norm(exact, r[2])
    ELSE Norm(ISqrt(r[1] * r[2] * HypotScale * HypotScale), r[2] * HypotScale)
RSqrt(r) == RootOf(r, ISqrt(r[1] * r[2]))
Hypot(dx, dy) == RSqrt(RAdd(RMul(dx, dx), RMul(dy, dy)))

Point(x, y) == [x |-> x, y |-> y]
Pt(i, j) == Point(R(i), R(j))


-----------------------------------------------------------------------------
(* Program constants *)

HistoryCap == 50                      \* saveHistory keeps at most 50 entries
MinSize == R(20)                      \* Math.max(20, ...) of the resize paths
MinScale == Frac(1, 4)                \* Math.max(0.25, ...)
MaxScale == R(2)                      \* Math.min(2, ...)
DEFAULT_NODE_SIZE == [width |-> R(120), height |-> R(80)]
DEFAULT_VIEWPORT == [x |-> R(0), y |-> R(0), scale |-> R(1)]
TEXT_NODE_PADDING == R(10)
ActiveDocumentId == 1                 \* initialDocId = uuidv4(): the first document
NoId == 0                             \* null connectionSource / target
NoUpdate == [id |-> NoId]             \* debouncedUpdateNode holds no call

NodeTypes == {"rectangle", "ellipse", "diamond", "text"}

-----------------------------------------------------------------------------
(* Sequence helpers: Array.prototype.find / includes (filter is SelectSeq) *)

Includes(seq, v) == \E i \in DOMAIN seq : seq[i] = v
Elems(seq) == {seq[i] : i \in DOMAIN seq}
NodeIds(nodes) == {nodes[i].id : i \in DOMAIN nodes}
EdgeIds(edges) == {edges[i].id : i \in DOMAIN edges}
HasNode(nodes, id) == \E i \in DOMAIN nodes : nodes[i].id = id
\* nodes.find((n) => n.id === id): the first match
FindNode(nodes, id) ==
    nodes[CHOOSE i \in DOMAIN nodes :
            nodes[i].id = id /\ \A j \in DOMAIN nodes : nodes[j].id = id => i <= j]

\* { ...obj, ...updates }
Merge(obj, updates) ==
    [f \in DOMAIN obj \cup DOMAIN updates |->
        IF f \in DOMAIN updates THEN updates[f] ELSE obj[f]]

\* JSON.parse(JSON.stringify(v)) on an array of plain objects: every element is
\* rebuilt field by field (all model values are finite numbers, strings and
\* plain objects, which JSON carries unchanged).
JsonClone(seq) == [i \in DOMAIN seq |-> [f \in DOMAIN seq[i] |-> seq[i][f]]]

-----------------------------------------------------------------------------
(* Geometry: getAnchor *)

Center(node) ==
    Point(RAdd(node.position.x, RDiv(node.size.width, R(2))),
          RAdd(node.position.y, RDiv(node.size.height, R(2))))

\* The rectangle / text / diamond branch: center + t * (nx, ny) with
\* t = 1 / (|nx / halfWidth| + |ny / halfHeight|)
Along(fromCenter, t, nx, ny) ==
    Point(RAdd(fromCenter.x, RMul(t, nx)), RAdd(fromCenter.y, RMul(t, ny)))
\* A faulty anchor, which takes the half width for both half axes
AnchorL1Square(fromCenter, nx, ny, halfWidth, halfHeight) ==
    Along(fromCenter,
          RDiv(R(1), RAdd(RAbs(RDiv(nx, halfWidth)), RAbs(RDiv(ny, halfWidth)))),
          nx, ny)

AnchorL1(fromCenter, nx, ny, halfWidth, halfHeight) ==
    Along(fromCenter,
          RDiv(R(1), RAdd(RAbs(RDiv(nx, halfWidth)), RAbs(RDiv(ny, halfHeight)))),
          nx, ny)

\* The ellipse branch: theta = atan2(dy, dx), center + (a cos theta, b sin theta);
\* cos(atan2(dy, dx)) = dx / hypot(dx, dy) = nx and sin(atan2(dy, dx)) = ny.
AnchorEllipse(fromCenter, nx, ny, a, b) ==
    Point(RAdd(fromCenter.x, RMul(a, nx)), RAdd(fromCenter.y, RMul(b, ny)))

\* The switch on the node's type
AnchorByType(type, fromCenter, nx, ny, halfW, halfH) ==
    CASE type \in {"rectangle", "text"} -> AnchorL1(fromCenter, nx, ny, halfW, halfH)
      [] type = "ellipse" -> AnchorEllipse(fromCenter, nx, ny, halfW, halfH)
      [] type = "diamond" -> AnchorL1(fromCenter, nx, ny, halfW, halfH)
      [] OTHER -> fromCenter

AnchorAt(fromNode, fromCenter, dx, dy, dist) ==
    IF dist = R(0) THEN fromCenter
    ELSE AnchorByType(fromNode.type, fromCenter, RDiv(dx, dist), RDiv(dy, dist),
                      RDiv(fromNode.size.width, R(2)),
                      RDiv(fromNode.size.height, R(2)))

AnchorDelta(fromNode, fromCenter, dx, dy) ==
    AnchorAt(fromNode, fromCenter, dx, dy, Hypot(dx, dy))

AnchorFrom(fromNode, fromCenter, toCenter) ==
    AnchorDelta(fromNode, fromCenter,
                RSub(toCenter.x, fromCenter.x), RSub(toCenter.y, fromCenter.y))

\* The anchor of fromNode toward the point toCenter (getTempAnchor's formula)
AnchorToward(fromNode, toCenter) == AnchorFrom(fromNode, Center(fromNode), toCenter)

getAnchor(fromNode, toNode) == AnchorToward(fromNode, Center(toNode))

-----------------------------------------------------------------------------
(* The canvas store: initial state and operations.  Every operation is an     *)
(* operator from the store's state s to its next state; uuidv4() results are  *)
(* passed in as newId.                                                        *)

NullPoint == [null |-> TRUE]          \* tempTarget: null
NullBox == [active |-> FALSE]         \* selectionBox: null

InitCanvas ==
    [nodes |-> <<>>, edges |-> <<>>,
     selectedNodes |-> <<>>, selectedEdges |-> <<>>,
     viewport |-> DEFAULT_VIEWPORT,
     tool |-> "select",
     isConnecting |-> FALSE, connectionSource |-> NoId,
     history |-> <<>>, historyIndex |-> -1,
     isDragging |-> FALSE, isPanning |-> FALSE,
     selectionBox |-> NullBox,
     showPropertyPanel |-> FALSE,
     selectionVisible |-> TRUE,
     isDragConnecting |-> FALSE, tempTarget |-> NullPoint]

\* The {nodes, edges, viewport} of a store state or of a history entry
Scene(s) == [nodes |-> s.nodes, edges |-> s.edges, viewport |-> s.viewport]

\* JavaScript's history[i] (0-based)
HistoryAt(s, i) == s.history[i + 1]

\* A faulty cap, which drops the newest snapshot instead of the oldest
PushCappedDroppingNewest(newHistory) ==
    IF Len(newHistory) > HistoryCap
    THEN SubSeq(newHistory, 1, Len(newHistory) - 1)
    ELSE newHistory

PushCapped(newHistory) ==
    IF Len(newHistory) > HistoryCap THEN Tail(newHistory) ELSE newHistory

\* A saveHistory that appends after the whole list and keeps the redo branch
saveHistoryKeepsRedo(s) ==
    LET newHistory == PushCapped(
            Append(s.history, [nodes |-> JsonClone(s.nodes),
                               edges |-> JsonClone(s.edges),
                               viewport |-> s.viewport]))
    IN  [s EXCEPT !.history = newHistory,
                  !.historyIndex = IF Len(newHistory) > Len(s.history)
                                   THEN s.historyIndex + 1 ELSE s.historyIndex]

saveHistory(s) ==
    LET newHistoryState == [nodes |-> JsonClone(s.nodes),
                            edges |-> JsonClone(s.edges),
                            viewport |-> s.viewport]
        newHistory == PushCapped(
            Append(SubSeq(s.history, 1, s.historyIndex + 1), newHistoryState))
    IN  [s EXCEPT !.history = newHistory, !.historyIndex = Len(newHistory) - 1]

\* An undo that also steps back from the first entry
undoPastFirst(s) ==
    IF s.historyIndex >= 0
    THEN [s EXCEPT !.historyIndex = s.historyIndex - 1,
                   !.selectedNodes = <<>>,
                   !.selectedEdges = <<>>]
    ELSE s

undo(s) ==
    IF s.historyIndex > 0
    THEN LET prevState == HistoryAt(s, s.historyIndex - 1)
         IN  [s EXCEPT !.nodes = JsonClone(prevState.nodes),
                       !.edges = JsonClone(prevState.edges),
                       !.viewport = prevState.viewport,
                       !.historyIndex = s.historyIndex - 1,
                       !.selectedNodes = <<>>,
                       !.selectedEdges = <<>>]
    ELSE s

redo(s) ==
    IF s.historyIndex < Len(s.history) - 1
    THEN LET nextState == HistoryAt(s, s.historyIndex + 1)
         IN  [s EXCEPT !.nodes = JsonClone(nextState.nodes),
                       !.edges = JsonClone(nextState.edges),
                       !.viewport = nextState.viewport,
                       !.historyIndex = s.historyIndex + 1,
                       !.selectedNodes = <<>>,
                       !.selectedEdges = <<>>]
    ELSE s

clear(s) ==
    saveHistory([s EXCEPT !.nodes = <<>>, !.edges = <<>>,
                          !.selectedNodes = <<>>, !.selectedEdges = <<>>,
                          !.viewport = DEFAULT_VIEWPORT,
                          !.showPropertyPanel = FALSE])

\* loadCanvas(canvasState): canvasState carries nodes, edges and viewport
loadCanvas(s, canvasState) ==
    LET newNodes == JsonClone(canvasState.nodes)
        newEdges == JsonClone(canvasState.edges)
    IN  IF s.nodes = newNodes /\ s.edges = newEdges
        THEN s
        ELSE saveHistory([s EXCEPT !.nodes = newNodes, !.edges = newEdges,
                                   !.selectedNodes = <<>>, !.selectedEdges = <<>>,
                                   !.viewport = canvasState.viewport,
                                   !.showPropertyPanel = FALSE])

NewNode(newId, type, position) ==
    [id |-> newId, type |-> type, position |-> position,
     size |-> DEFAULT_NODE_SIZE, text |-> "New Node",
     fill |-> "#ffffff", stroke |-> "#666666", strokeWidth |-> R(2)]

addNode(s, newId, type, position) ==
    [s EXCEPT !.nodes = Append(s.nodes, NewNode(newId, type, position)),
              !.selectedNodes = <<newId>>,
              !.selectedEdges = <<>>]

NewTextNode(newId, position) ==
    [id |-> newId, type |-> "text", position |-> position,
     size |-> [width |-> RAdd(R(100), RMul(TEXT_NODE_PADDING, R(2))),
               height |-> RAdd(R(30), RMul(TEXT_NODE_PADDING, R(2)))],
     text |-> "Click to edit",
     fill |-> "transparent", stroke |-> "transparent", strokeWidth |-> R(0)]

addTextNode(s, newId, position) ==
    saveHistory([s EXCEPT !.nodes = Append(s.nodes, NewTextNode(newId, position)),
                          !.selectedNodes = <<newId>>,
                          !.selectedEdges = <<>>])

\* { ...node, id: uuidv4(), position: { x: node.position.x + 20, ... } }
CopyOf(node, newId) ==
    [node EXCEPT !.id = newId,
                 !.position = Point(RAdd(node.position.x, R(20)),
                                    RAdd(node.position.y, R(20)))]

duplicateNode(s, newId, nodeId) ==
    IF ~HasNode(s.nodes, nodeId) THEN s
    ELSE saveHistory([s EXCEPT !.nodes = Append(s.nodes,
                                            CopyOf(FindNode(s.nodes, nodeId), newId)),
                               !.selectedNodes = <<newId>>,
                               !.selectedEdges = <<>>])

\* { ...edge, sourceAnchor, targetAnchor } with both anchors recomputed
\* A faulty update, which recomputes the source end only
ReanchoredSourceOnly(edge, sourceNode, targetNode) ==
    [edge EXCEPT !.sourceAnchor = getAnchor(sourceNode, targetNode)]

Reanchored(edge, sourceNode, targetNode) ==
    [edge EXCEPT !.sourceAnchor = getAnchor(sourceNode, targetNode),
                 !.targetAnchor = getAnchor(targetNode, sourceNode)]

updateConnectedEdges(s, nodeId) ==
    IF ~HasNode(s.nodes, nodeId) THEN s
    ELSE [s EXCEPT !.edges =
            [i \in DOMAIN s.edges |->
                IF s.edges[i].sourceNodeId # nodeId /\ s.edges[i].targetNodeId # nodeId
                THEN s.edges[i]
                ELSE Reanchored(s.edges[i],
                                FindNode(s.nodes, s.edges[i].sourceNodeId),
                                FindNode(s.nodes, s.edges[i].targetNodeId))]]

\* The body shared by updateNodeSync and by the function debouncedUpdateNode
\* wraps: merge the updates into the node, then updateConnectedEdges(id).
ApplyNodeUpdate(s, id, updates) ==
    updateConnectedEdges(
        [s EXCEPT !.nodes = [i \in DOMAIN s.nodes |->
                                IF s.nodes[i].id = id
                                THEN Merge(s.nodes[i], updates)
                                ELSE s.nodes[i]]],
        id)

updateNodeSync(s, id, updates) == ApplyNodeUpdate(s, id, updates)

\* A faulty deleteNode, which keeps the edges of the deleted node
deleteNodeKeepingEdges(s, id) ==
    LET KeepNode(node) == node.id # id
        KeepSel(nodeId) == nodeId # id
    IN  saveHistory([s EXCEPT !.nodes = SelectSeq(s.nodes, KeepNode),
                              !.selectedNodes = SelectSeq(s.selectedNodes, KeepSel)])

deleteNode(s, id) ==
    LET KeepNode(node) == node.id # id
        KeepEdge(edge) == edge.sourceNodeId # id /\ edge.targetNodeId # id
        KeepSel(nodeId) == nodeId # id
    IN  saveHistory([s EXCEPT !.nodes = SelectSeq(s.nodes, KeepNode),
                              !.edges = SelectSeq(s.edges, KeepEdge),
                              !.selectedNodes = SelectSeq(s.selectedNodes, KeepSel)])

Toggle(seq, id) ==
    LET Other(x) == x # id
    IN  IF Includes(seq, id) THEN SelectSeq(seq, Other) ELSE Append(seq, id)

selectNode(s, id, multiSelect) ==
    LET isSelected == Includes(s.selectedNodes, id)
    IN  IF multiSelect
        THEN [s EXCEPT !.selectedNodes = Toggle(s.selectedNodes, id),
                       !.selectedEdges = <<>>]
        ELSE [s EXCEPT !.selectedNodes = IF isSelected THEN <<>> ELSE <<id>>,
                       !.selectedEdges = <<>>]

selectNodes(s, ids) == [s EXCEPT !.selectedNodes = ids, !.selectedEdges = <<>>]

\* A selectEdge that leaves the node selection alone
selectEdgeKeepingNodes(s, id, multiSelect) ==
    [s EXCEPT !.selectedEdges = IF multiSelect THEN Toggle(s.selectedEdges, id)
                                ELSE IF Includes(s.selectedEdges, id) THEN <<>>
                                ELSE <<id>>]

selectEdge(s, id, multiSelect) ==
    LET isSelected == Includes(s.selectedEdges, id)
    IN  IF multiSelect
        THEN [s EXCEPT !.selectedEdges = Toggle(s.selectedEdges, id),
                       !.selectedNodes = <<>>]
        ELSE [s EXCEPT !.selectedEdges = IF isSelected THEN <<>> ELSE <<id>>,
                       !.selectedNodes = <<>>]

clearSelection(s) == [s EXCEPT !.selectedNodes = <<>>, !.selectedEdges = <<>>]

\* A deleteSelected that keeps the edges of the deleted nodes
deleteSelectedLeavingEdges(s) ==
    LET selectedNodes == s.selectedNodes
        selectedEdges == s.selectedEdges
        KeepNode(node) == ~Includes(selectedNodes, node.id)
        KeepEdge(edge) == ~Includes(selectedEdges, edge.id)
    IN  saveHistory([s EXCEPT !.nodes = SelectSeq(s.nodes, KeepNode),
                              !.edges = SelectSeq(s.edges, KeepEdge),
                              !.selectedNodes = <<>>,
                              !.selectedEdges = <<>>])

deleteSelected(s) ==
    LET selectedNodes == s.selectedNodes
        selectedEdges == s.selectedEdges
        KeepNode(node) == ~Includes(selectedNodes, node.id)
        KeepEdge(edge) == /\ ~Includes(selectedEdges, edge.id)
                          /\ ~Includes(selectedNodes, edge.sourceNodeId)
                          /\ ~Includes(selectedNodes, edge.targetNodeId)
    IN  saveHistory([s EXCEPT !.nodes = SelectSeq(s.nodes, KeepNode),
                              !.edges = SelectSeq(s.edges, KeepEdge),
                              !.selectedNodes = <<>>,
                              !.selectedEdges = <<>>])

\* A faulty guard, which lets an edge from a node to itself through
AddEdgeRejectsMissing(s, sourceNodeId, targetNodeId) ==
    \/ ~HasNode(s.nodes, sourceNodeId)
    \/ ~HasNode(s.nodes, targetNodeId)

\* The guard of addEdge's early return
AddEdgeRejects(s, sourceNodeId, targetNodeId) ==
    \/ ~HasNode(s.nodes, sourceNodeId)
    \/ ~HasNode(s.nodes, targetNodeId)
    \/ sourceNodeId = targetNodeId

NewEdge(newId, sourceNode, targetNode) ==
    [id |-> newId,
     sourceNodeId |-> sourceNode.id,
     targetNodeId |-> targetNode.id,
     sourceAnchor |-> getAnchor(sourceNode, targetNode),
     targetAnchor |-> getAnchor(targetNode, sourceNode)]

addEdge(s, newId, sourceNodeId, targetNodeId) ==
    IF AddEdgeRejects(s, sourceNodeId, targetNodeId) THEN s
    ELSE saveHistory([s EXCEPT !.edges = Append(s.edges,
                                    NewEdge(newId, FindNode(s.nodes, sourceNodeId),
                                                   FindNode(s.nodes, targetNodeId))),
                               !.isConnecting = FALSE,
                               !.connectionSource = NoId])

\* A deleteEdge that leaves the deleted edge in the selection
deleteEdgeKeepingSelection(s, id) ==
    LET KeepEdge(edge) == edge.id # id
    IN  saveHistory([s EXCEPT !.edges = SelectSeq(s.edges, KeepEdge)])

deleteEdge(s, id) ==
    LET KeepEdge(edge) == edge.id # id
        KeepSel(edgeId) == edgeId # id
    IN  saveHistory([s EXCEPT !.edges = SelectSeq(s.edges, KeepEdge),
                              !.selectedEdges = SelectSeq(s.selectedEdges, KeepSel)])

handleEdgeClick(s, edgeId, multiSelect) ==
    IF s.tool = "line" THEN deleteEdge(s, edgeId)
    ELSE selectEdge(s, edgeId, multiSelect)

setViewport(s, viewport) == [s EXCEPT !.viewport = Merge(s.viewport, viewport)]

\* A faulty clamp, which has no upper limit
ClampScaleFromBelow(newScale) == RMax(MinScale, newScale)

ClampScale(newScale) == RMax(MinScale, RMin(MaxScale, newScale))

\* (pos - viewport.x) / viewport.scale, for both axes
ToWorld(viewport, pos) ==
    Point(RDiv(RSub(pos.x, viewport.x), viewport.scale),
          RDiv(RSub(pos.y, viewport.y), viewport.scale))

\* A faulty zoom, which does not scale the world point under the centre
ZoomedAboutUnscaled(center, oldWorld, clamped) ==
    [x |-> RSub(center.x, oldWorld.x),
     y |-> RSub(center.y, oldWorld.y),
     scale |-> clamped]

ZoomedAbout(center, oldWorld, clamped) ==
    [x |-> RSub(center.x, RMul(oldWorld.x, clamped)),
     y |-> RSub(center.y, RMul(oldWorld.y, clamped)),
     scale |-> clamped]

ZoomedViewport(viewport, center, clamped) ==
    ZoomedAbout(center, ToWorld(viewport, center), clamped)

zoom(s, delta, center) ==
    [s EXCEPT !.viewport =
        ZoomedViewport(s.viewport, center,
                       ClampScale(RMul(s.viewport.scale, RAdd(R(1), delta))))]

pan(s, delta) ==
    [s EXCEPT !.viewport.x = RAdd(s.viewport.x, delta.x),
              !.viewport.y = RAdd(s.viewport.y, delta.y)]

setTool(s, tool) ==
    IF tool = "line" THEN [s EXCEPT !.tool = tool]
    ELSE [s EXCEPT !.tool = tool, !.isConnecting = FALSE, !.connectionSource = NoId]

startConnection(s, nodeId) ==
    [s EXCEPT !.isConnecting = TRUE, !.connectionSource = nodeId, !.tool = "line"]

\* TRUE iff endConnection(nodeId) reaches its addEdge call
EndConnectionAdds(s, nodeId) ==
    nodeId # NoId /\ s.connectionSource # NoId /\ s.connectionSource # nodeId

\* An end of the connection that forgets to clear the source
NotConnectingKeepsSource(s) == [s EXCEPT !.isConnecting = FALSE]

NotConnecting(s) == [s EXCEPT !.isConnecting = FALSE, !.connectionSource = NoId]

endConnection(s, newId, nodeId) ==
    NotConnecting(IF EndConnectionAdds(s, nodeId)
                  THEN addEdge(s, newId, s.connectionSource, nodeId)
                  ELSE s)

\* A cancelConnection that commits what it leaves behind
cancelConnectionCommitting(s) ==
    saveHistory([s EXCEPT !.isConnecting = FALSE, !.connectionSource = NoId,
                          !.tool = "select"])

cancelConnection(s) ==
    [s EXCEPT !.isConnecting = FALSE, !.connectionSource = NoId, !.tool = "select"]

startDragConnection(s, nodeId, initialPos) ==
    [s EXCEPT !.isConnecting = TRUE, !.connectionSource = nodeId,
              !.isDragConnecting = TRUE, !.tempTarget = initialPos]

NotDragConnecting(s) == [s EXCEPT !.isDragConnecting = FALSE, !.tempTarget = NullPoint]

endDragConnection(s, newId, targetNodeId) ==
    NotDragConnecting(endConnection(s, newId, targetNodeId))

setDragging(s, isDragging) == [s EXCEPT !.isDragging = isDragging]

setShowPropertyPanel(s, show) == [s EXCEPT !.showPropertyPanel = show]

startSelectionBox(s, point) ==
    [s EXCEPT !.selectionBox = [start |-> point, end |-> point, active |-> TRUE,
                                stroke |-> "#3b82f6",
                                fill |-> "rgba(59, 130, 246, 0.2)",
                                strokeWidth |-> R(1)]]

updateSelectionBox(s, point) ==
    IF s.selectionBox = NullBox THEN s ELSE [s EXCEPT !.selectionBox.end = point]

updateTempTarget(s, pos) == [s EXCEPT !.tempTarget = pos]

endSelectionBox(s) ==
    IF ~s.selectionBox.active THEN s
    ELSE LET start == s.selectionBox.start
             end == s.selectionBox.end
             minX == RMin(start.x, end.x)
             maxX == RMax(start.x, end.x)
             minY == RMin(start.y, end.y)
             maxY == RMax(start.y, end.y)
             Hit(node) ==
                /\ RLe(minX, RAdd(node.position.x, node.size.width))
                /\ RLe(node.position.x, maxX)
                /\ RLe(minY, RAdd(node.position.y, node.size.height))
                /\ RLe(node.position.y, maxY)
             hits == SelectSeq(s.nodes, Hit)
         IN  [s EXCEPT !.selectedNodes = [i \in DOMAIN hits |-> hits[i].id],
                       !.selectedEdges = <<>>,
                       !.selectionBox = NullBox]

-----------------------------------------------------------------------------
(* Event handlers of the components.  An action is one handler run to its    *)
(* end, followed by React's re-render of the canvas.                          *)

\* doc.state as the sync bridge writes it
DocumentState(s) ==
    [nodes |-> s.nodes, edges |-> s.edges,
     selectedNodes |-> s.selectedNodes, selectedEdges |-> s.selectedEdges,
     viewport |-> s.viewport]

\* defaultDocument / reset(): one empty document 'Page 1' with a fresh id
DefaultDocument(newDocId) ==
    [id |-> newDocId, name |-> "Page 1", state |-> DocumentState(InitCanvas)]

NothingSaved == [nodes |-> <<>>, edges |-> <<>>]

FreshDocumentStore(newDocId) ==
    [documents |-> <<DefaultDocument(newDocId)>>,
     activeDocumentId |-> newDocId,
     lastSavedState |-> (newDocId :> NothingSaved),
     isAutoSaving |-> FALSE]

NoState == [none |-> TRUE]            \* lastDocumentState: null
NoTimer == 0                          \* debouncedAutoSave holds no call

\* The stores around the canvas store when the editor opens for a visitor with
\* the session auth: nothing propagated, nothing scheduled, nothing in flight
AroundCanvas(auth) ==
    /\ documentStore = FreshDocumentStore(ActiveDocumentId)
    /\ bridge = [lastDocumentState |-> NoState, timeouts |-> <<>>]
    /\ network = [auth |-> auth, autoSave |-> NoTimer, requests |-> <<>>,
                  settled |-> "nothing"]
    /\ react = [readOnly |-> FALSE, notification |-> "", localViewport |-> DEFAULT_VIEWPORT]

\* The node each mounted CanvasNode captured in the callbacks it memoises on
\* [node.id]: the node as it was when the component mounted (key = node.id).
Rendered(m, nodes) ==
    [id \in NodeIds(nodes) |->
        IF id \in DOMAIN m THEN m[id] ELSE FindNode(nodes, id)]

NoMounted == [id \in {} |-> NoId]
Idle == [pc |-> "idle"]

\* The store moves to s2; sync: debouncedUpdateDocument() was called;
\* unsaved: markUnsaved(activeDocumentId) was called.
CanvasStep(s2, sync, unsaved) ==
    /\ canvas' = s2
    /\ mounted' = Rendered(mounted, s2.nodes)
    /\ docSyncPending' = (docSyncPending \/ sync)
    /\ unsavedChanges' = (unsavedChanges \/ unsaved)

\* ... and the handler touches nothing outside the canvas store
StoreStep(s2, sync, unsaved) ==
    /\ CanvasStep(s2, sync, unsaved)
    /\ UNCHANGED <<documentStore, bridge, network, react>>

\* Bounds of the exploration: fresh ids left, room for n more history entries
FreshId == nextId <= MaxIds
RoomForNode == FreshId /\ Len(canvas.nodes) < MaxNodes
CanCommit(n) == canvas.historyIndex + 1 + n <= MaxCommits

ToolbarShapes == {"rectangle"}
Tools == {"select", "line"}

GridPosition(nodeCount) ==
    LET maxPerRow == 5
        row == nodeCount \div maxPerRow
        col == nodeCount % maxPerRow
    IN  Pt(100 + col * (100 + 50), 100 + row * (100 + 50))

handleShapeClick(shapeType) ==
    /\ RoomForNode
    /\ StoreStep(addNode(canvas, nextId, shapeType, GridPosition(Len(canvas.nodes))),
                 TRUE, TRUE)
    /\ nextId' = nextId + 1
    /\ UNCHANGED <<pendingUpdate, rt>>

handleTextClick ==
    /\ RoomForNode /\ CanCommit(1)
    /\ StoreStep(addTextNode(canvas, nextId, GridPosition(Len(canvas.nodes))),
                 TRUE, TRUE)
    /\ nextId' = nextId + 1
    /\ UNCHANGED <<pendingUpdate, rt>>

ToolButtonClick(tool) ==
    /\ StoreStep(setTool(canvas, tool), FALSE, FALSE)
    /\ UNCHANGED <<pendingUpdate, nextId, rt>>

\* CanvasNode.handleClick's test for an edge between the two nodes
ExistingConnection(edges, a, b) ==
    \E i \in DOMAIN edges :
        \/ edges[i].sourceNodeId = a /\ edges[i].targetNodeId = b
        \/ edges[i].sourceNodeId = b /\ edges[i].targetNodeId = a

NodeClick(id, ctrlKey) ==
    /\ HasNode(canvas.nodes, id)
    /\ IF canvas.tool = "line"
       THEN IF canvas.isConnecting /\ canvas.connectionSource # NoId
            THEN IF canvas.connectionSource = id
                 THEN /\ StoreStep(endConnection(canvas, nextId, NoId), FALSE, FALSE)
                      /\ UNCHANGED nextId
                 ELSE IF ~ExistingConnection(canvas.edges, canvas.connectionSource, id)
                      THEN LET adds == ~AddEdgeRejects(canvas, canvas.connectionSource, id)
                           IN  /\ adds => FreshId /\ CanCommit(1)
                               /\ StoreStep(endConnection(canvas, nextId, id), adds, adds)
                               /\ nextId' = IF adds THEN nextId + 1 ELSE nextId
                      ELSE /\ StoreStep(canvas, FALSE, FALSE)
                           /\ UNCHANGED nextId
            ELSE /\ StoreStep(startConnection(canvas, id), FALSE, FALSE)
                 /\ UNCHANGED nextId
       ELSE IF canvas.tool = "select"
            THEN LET selected == selectNode(canvas, id, ctrlKey)
                 IN  /\ StoreStep(IF ctrlKey THEN selected
                                  ELSE setShowPropertyPanel(selected, TRUE),
                                  TRUE, FALSE)
                     /\ UNCHANGED nextId
            ELSE /\ StoreStep(canvas, FALSE, FALSE)
                 /\ UNCHANGED nextId
    /\ UNCHANGED <<pendingUpdate, rt>>

\* Mouse down on a node's connector: the pointer is at the node's centre
ConnectorMouseDown(id) ==
    /\ HasNode(canvas.nodes, id)
    /\ canvas.tool = "select" /\ Includes(canvas.selectedNodes, id)
    /\ StoreStep(startDragConnection(canvas, id, Center(FindNode(canvas.nodes, id))),
                 FALSE, FALSE)
    /\ UNCHANGED <<pendingUpdate, nextId, rt>>

\* Canvas.handleStageMouseUp over the node targetNodeId (NoId: over no node)
setPanning(s, isPanning) == [s EXCEPT !.isPanning = isPanning]

\* TRUE iff the mouse-up ends a drag connection that creates an edge
MouseUpAdds(s, targetNodeId) ==
    /\ s.isDragConnecting
    /\ EndConnectionAdds(s, targetNodeId)
    /\ ~AddEdgeRejects(s, s.connectionSource, targetNodeId)

MouseUpStore(s, newId, targetNodeId) ==
    endSelectionBox(setPanning(IF s.isDragConnecting
                               THEN endDragConnection(s, newId, targetNodeId)
                               ELSE s,
                               FALSE))

handleStageMouseUp(targetNodeId) ==
    /\ targetNodeId # NoId => HasNode(canvas.nodes, targetNodeId)
    /\ MouseUpAdds(canvas, targetNodeId) => FreshId /\ CanCommit(1)
    /\ StoreStep(MouseUpStore(canvas, nextId, targetNodeId),
                 MouseUpAdds(canvas, targetNodeId) \/ canvas.selectionBox.active,
                 MouseUpAdds(canvas, targetNodeId))
    /\ nextId' = IF MouseUpAdds(canvas, targetNodeId) THEN nextId + 1 ELSE nextId
    /\ UNCHANGED <<pendingUpdate, rt>>

onEdgeClick(edgeId, ctrlKey) ==
    /\ edgeId \in EdgeIds(canvas.edges)
    /\ canvas.tool = "line" => CanCommit(1)
    /\ StoreStep(handleEdgeClick(canvas, edgeId, ctrlKey), TRUE, canvas.tool = "line")
    /\ UNCHANGED <<pendingUpdate, nextId, rt>>

onEdgeDoubleClick(edgeId) ==
    /\ edgeId \in EdgeIds(canvas.edges)
    /\ CanCommit(1)
    /\ StoreStep(deleteEdge(canvas, edgeId), TRUE, TRUE)
    /\ UNCHANGED <<pendingUpdate, nextId, rt>>

\* Delete / Backspace on the canvas
KeyDelete ==
    /\ CanCommit(1)
    /\ StoreStep(deleteSelected(canvas), TRUE, TRUE)
    /\ UNCHANGED <<pendingUpdate, nextId, rt>>

\* Ctrl+Z and the toolbar's Undo button
Undo ==
    /\ StoreStep(undo(canvas), canvas.historyIndex > 0, canvas.historyIndex > 0)
    /\ UNCHANGED <<pendingUpdate, nextId, rt>>

\* Ctrl+Shift+Z and the toolbar's Redo button
Redo ==
    /\ LET moves == canvas.historyIndex < Len(canvas.history) - 1
       IN  StoreStep(redo(canvas), moves, moves)
    /\ UNCHANGED <<pendingUpdate, nextId, rt>>

DuplicateButton ==
    /\ Len(canvas.selectedNodes) = 1
    /\ RoomForNode /\ CanCommit(1)
    /\ LET adds == HasNode(canvas.nodes, canvas.selectedNodes[1])
       IN  /\ StoreStep(duplicateNode(canvas, nextId, canvas.selectedNodes[1]), adds, adds)
           /\ nextId' = IF adds THEN nextId + 1 ELSE nextId
    /\ UNCHANGED <<pendingUpdate, rt>>

DeleteButton ==
    /\ Len(canvas.selectedNodes) = 1
    /\ CanCommit(1)
    /\ StoreStep(deleteNode(canvas, canvas.selectedNodes[1]), TRUE, TRUE)
    /\ UNCHANGED <<pendingUpdate, nextId, rt>>

\* The property panel shows the single selected node, if it exists
PanelNode(s) ==
    IF Len(s.selectedNodes) = 1 /\ HasNode(s.nodes, s.selectedNodes[1])
    THEN s.selectedNodes[1] ELSE NoId

\* A direct call of the store's addEdge(sourceNodeId, targetNodeId)
AddEdge(sourceNodeId, targetNodeId) ==
    /\ ~AddEdgeRejects(canvas, sourceNodeId, targetNodeId) => FreshId /\ CanCommit(1)
    /\ StoreStep(addEdge(canvas, nextId, sourceNodeId, targetNodeId),
                 ~AddEdgeRejects(canvas, sourceNodeId, targetNodeId),
                 ~AddEdgeRejects(canvas, sourceNodeId, targetNodeId))
    /\ nextId' = IF AddEdgeRejects(canvas, sourceNodeId, targetNodeId)
                 THEN nextId ELSE nextId + 1
    /\ UNCHANGED <<pendingUpdate, rt>>

\* PropertyPanel.handlePositionChange(field, value); numValue = parseFloat(value) || 0
WithField(obj, field, numValue) == [obj EXCEPT ![field] = numValue]

handlePositionChange(field, numValue) ==
    /\ PanelNode(canvas) # NoId
    /\ StoreStep(saveHistory(updateNodeSync(canvas, PanelNode(canvas),
                    [position |-> WithField(FindNode(canvas.nodes, PanelNode(canvas)).position,
                                            field, numValue)])),
                 TRUE, TRUE)
    /\ UNCHANGED <<pendingUpdate, nextId, rt>>

ClearButton ==
    /\ CanCommit(1)
    /\ StoreStep(clear(canvas), TRUE, TRUE)
    /\ UNCHANGED <<pendingUpdate, nextId, rt>>

\* updateDocument(): when the scene differs from lastDocumentState (deep-equal
\* on its five keys) it becomes lastDocumentState and a setTimeout(0) will hand
\* it to updateDocumentState(activeDocumentId, ...)
updateDocument(b, activeDocumentId, s) ==
    IF b.lastDocumentState = NoState \/ b.lastDocumentState # DocumentState(s)
    THEN [lastDocumentState |-> DocumentState(s),
          timeouts |-> Append(b.timeouts, [id |-> activeDocumentId,
                                           state |-> DocumentState(s)])]
    ELSE b

\* The 300 ms timer of debouncedUpdateDocument fires
DocSyncFire ==
    /\ docSyncPending
    /\ docSyncPending' = FALSE
    /\ bridge' = updateDocument(bridge, documentStore.activeDocumentId, canvas)
    /\ UNCHANGED <<canvas, pendingUpdate, unsavedChanges, mounted, nextId, rt,
                   documentStore, network, react>>

Init ==
    /\ canvas = InitCanvas
    /\ pendingUpdate = NoUpdate
    /\ docSyncPending = FALSE
    /\ unsavedChanges = FALSE
    /\ mounted = NoMounted
    /\ nextId = 1
    /\ rt = Idle
    /\ AroundCanvas("anonymous")

Ids == 1 .. MaxIds

Next ==
    \/ \E shapeType \in ToolbarShapes : handleShapeClick(shapeType)
    \/ handleTextClick
    \/ DuplicateButton
    \/ \E s \in Ids, t \in Ids : AddEdge(s, t)
    \/ \E id \in Ids, ctrlKey \in BOOLEAN : NodeClick(id, ctrlKey)
    \/ \E id \in Ids, ctrlKey \in BOOLEAN : onEdgeClick(id, ctrlKey)
    \/ \E id \in Ids : onEdgeDoubleClick(id)
    \/ KeyDelete
    \/ DeleteButton
    \/ ClearButton
    \/ Undo
    \/ Redo

Spec == Init /\ [][Next]_vars

-----------------------------------------------------------------------------
(* Resizing a node by one of its 8 handles *)

\* CanvasNode.handleResize(newSize); node is the node the callback closed over
ResizeEnd(edge, end, node, newSize, nodes) ==
    IF end = node.id THEN [node EXCEPT !.size = newSize] ELSE FindNode(nodes, end)

ResizedEdge(edge, node, newSize, nodes) ==
    IF edge.sourceNodeId = node.id \/ edge.targetNodeId = node.id
    THEN Reanchored(edge,
                    ResizeEnd(edge, edge.sourceNodeId, node, newSize, nodes),
                    ResizeEnd(edge, edge.targetNodeId, node, newSize, nodes))
    ELSE edge

handleResize(s, node, newSize) ==
    saveHistory([s EXCEPT
        !.nodes = [i \in DOMAIN s.nodes |->
                      IF s.nodes[i].id = node.id
                      THEN [s.nodes[i] EXCEPT !.size = newSize]
                      ELSE s.nodes[i]],
        !.edges = [i \in DOMAIN s.edges |->
                      ResizedEdge(s.edges[i], node, newSize, s.nodes)]])

\* The switch (index) of ResizeHandles.onDragMove: the size before clamping
HandleSize(index, originalPos, originalSize, relativePos) ==
    [width |->
        IF index \in {0, 3, 7}
        THEN RAdd(originalSize.width, RSub(originalPos.x, relativePos.x))
        ELSE IF index \in {1, 2, 5}
             THEN RSub(relativePos.x, originalPos.x)
             ELSE originalSize.width,
     height |->
        IF index \in {0, 1, 4}
        THEN RAdd(originalSize.height, RSub(originalPos.y, relativePos.y))
        ELSE IF index \in {2, 3, 6}
             THEN RSub(relativePos.y, originalPos.y)
             ELSE originalSize.height]

\* ... and the position
HandlePosition(index, originalPos, relativePos) ==
    [x |-> IF index \in {0, 3, 7} THEN relativePos.x ELSE originalPos.x,
     y |-> IF index \in {0, 1, 4} THEN relativePos.y ELSE originalPos.y]

ClampSize(newSize) ==
    [width |-> RMax(MinSize, newSize.width), height |-> RMax(MinSize, newSize.height)]

MoveNode(s, id, newPosition) ==
    [s EXCEPT !.nodes = [i \in DOMAIN s.nodes |->
                            IF s.nodes[i].id = id
                            THEN [s.nodes[i] EXCEPT !.position = newPosition]
                            ELSE s.nodes[i]]]

HandleDragStore(s, node, closed, newSize, newPosition) ==
    IF newPosition # node.position
    THEN MoveNode(handleResize(s, closed, newSize), node.id, newPosition)
    ELSE handleResize(s, closed, newSize)

HandleDragAt(s, node, closed, index, relativePos) ==
    HandleDragStore(s, node, closed,
                    ClampSize(HandleSize(index, node.position, node.size, relativePos)),
                    HandlePosition(index, node.position, relativePos))

\* ResizeHandles.onDragMove of handle index of node id, the handle dragged to
\* the screen position newPos
onHandleDragMove(id, index, newPos) ==
    /\ HasNode(canvas.nodes, id)
    /\ Includes(canvas.selectedNodes, id)
    /\ StoreStep(HandleDragAt(canvas, FindNode(canvas.nodes, id), mounted[id], index,
                              ToWorld(canvas.viewport, newPos)),
                 FALSE, FALSE)
    /\ UNCHANGED <<pendingUpdate, nextId, rt>>

\* ResizeHandles.onDragEnd
onHandleDragEnd(id) ==
    /\ HasNode(canvas.nodes, id)
    /\ Includes(canvas.selectedNodes, id)
    /\ StoreStep(saveHistory(canvas), FALSE, FALSE)
    /\ UNCHANGED <<pendingUpdate, nextId, rt>>

-----------------------------------------------------------------------------
(* The history under a long resize drag: one rectangle, added from the       *)
(* toolbar, whose right-centre handle is dragged one unit further right per  *)
(* frame; every frame commits (handleResize calls saveHistory).              *)

InitHist ==
    /\ canvas = addNode(InitCanvas, 1, "rectangle", GridPosition(0))
    /\ pendingUpdate = NoUpdate
    /\ docSyncPending = TRUE
    /\ unsavedChanges = TRUE
    /\ mounted = Rendered(NoMounted, canvas.nodes)
    /\ nextId = 2
    /\ rt = Idle
    /\ AroundCanvas("anonymous")

\* The screen position one world unit right of the node's right edge
RightOf(viewport, node) ==
    Point(RAdd(viewport.x,
               RMul(RAdd(RAdd(node.position.x, node.size.width), R(1)), viewport.scale)),
          RAdd(viewport.y, RMul(Center(node).y, viewport.scale)))

WidenFrame(id) ==
    /\ HasNode(canvas.nodes, id)
    /\ RLt(FindNode(canvas.nodes, id).size.width,
           RAdd(DEFAULT_NODE_SIZE.width, R(MaxFrames)))
    /\ onHandleDragMove(id, 5, RightOf(canvas.viewport, FindNode(canvas.nodes, id)))

NextHist ==
    \/ \E id \in Ids : WidenFrame(id)
    \/ \E id \in Ids : NodeClick(id, FALSE)
    \/ Undo
    \/ Redo

SpecHist == InitHist /\ [][NextHist]_vars

-----------------------------------------------------------------------------
(* The undo / redo round trip: on a scene built from the toolbar, call        *)
(* saveHistory(), apply one mutation, optionally saveHistory() again, then    *)
(* undo() and redo().  rt records the scene after the first saveHistory, the  *)
(* scene after the mutation and the commits made since the first saveHistory. *)

\* The stores one mutation of s can produce
Mutations(s, newId) ==
    {addNode(s, newId, "ellipse", GridPosition(Len(s.nodes)))}
    \cup {addEdge(s, newId, a, b) : a \in NodeIds(s.nodes), b \in NodeIds(s.nodes)}
    \cup {deleteNode(s, id) : id \in NodeIds(s.nodes)}
    \cup {updateNodeSync(s, id, [position |-> Pt(300, 300)]) : id \in NodeIds(s.nodes)}
    \cup {pan(s, Pt(10, 0))}

RtSetUp ==
    /\ rt.pc = "idle"
    /\ \/ \E shapeType \in ToolbarShapes : handleShapeClick(shapeType)
       \/ \E s \in Ids, t \in Ids : AddEdge(s, t)
       \/ Undo

RtSave ==
    /\ rt.pc = "idle"
    /\ StoreStep(saveHistory(canvas), FALSE, FALSE)
    /\ rt' = [pc |-> "saved", pre |-> Scene(canvas)]
    /\ UNCHANGED <<pendingUpdate, nextId>>

RtMutate ==
    /\ rt.pc = "saved"
    /\ FreshId
    /\ \E mutated \in Mutations(canvas, nextId) :
          /\ Scene(mutated) # Scene(canvas)
          /\ StoreStep(mutated, TRUE, TRUE)
          /\ rt' = [pc |-> "mutated", pre |-> rt.pre, post |-> Scene(mutated),
                    commits |-> IF mutated.history # canvas.history THEN 1 ELSE 0]
    /\ nextId' = nextId + 1
    /\ UNCHANGED pendingUpdate

RtCommit ==
    /\ rt.pc = "mutated"
    /\ rt.commits < 2
    /\ StoreStep(saveHistory(canvas), FALSE, FALSE)
    /\ rt' = [rt EXCEPT !.commits = rt.commits + 1]
    /\ UNCHANGED <<pendingUpdate, nextId>>

RtUndo ==
    /\ rt.pc = "mutated"
    /\ StoreStep(undo(canvas), canvas.historyIndex > 0, canvas.historyIndex > 0)
    /\ rt' = [rt EXCEPT !.pc = "undone"]
    /\ UNCHANGED <<pendingUpdate, nextId>>

RtRedo ==
    /\ rt.pc = "undone"
    /\ StoreStep(redo(canvas), canvas.historyIndex < Len(canvas.history) - 1,
                 canvas.historyIndex < Len(canvas.history) - 1)
    /\ rt' = [rt EXCEPT !.pc = "redone"]
    /\ UNCHANGED <<pendingUpdate, nextId>>

NextRT ==
    \/ RtSetUp
    \/ RtSave
    \/ RtMutate
    \/ RtCommit
    \/ RtUndo
    \/ RtRedo

SpecRT == Init /\ [][NextRT]_vars

\* The connection gestures: click-to-connect with the line tool, drag-to-connect
\* from a node's connector, and the store's addEdge called directly.
NextConnect ==
    \/ \E shapeType \in ToolbarShapes : handleShapeClick(shapeType)
    \/ \E tool \in Tools : ToolButtonClick(tool)
    \/ \E id \in Ids, ctrlKey \in BOOLEAN : NodeClick(id, ctrlKey)
    \/ \E id \in Ids : ConnectorMouseDown(id)
    \/ \E id \in Ids \cup {NoId} : handleStageMouseUp(id)
    \/ \E s \in Ids, t \in Ids : AddEdge(s, t)
    \/ \E id \in Ids, ctrlKey \in BOOLEAN : onEdgeClick(id, ctrlKey)
    \/ Undo
    \/ Redo

SpecConnect == Init /\ [][NextConnect]_vars

-----------------------------------------------------------------------------
(* Moving and resizing connected nodes: a rectangle and an ellipse from the  *)
(* toolbar, joined by one edge.                                               *)

\* CanvasNode.handleDragStart; isSelected is the node's selection as rendered
handleDragStart(id) ==
    /\ HasNode(canvas.nodes, id)
    /\ canvas.tool = "select"
    /\ ~canvas.isDragging
    /\ StoreStep(setShowPropertyPanel(
                     IF Includes(canvas.selectedNodes, id)
                     THEN setDragging(canvas, TRUE)
                     ELSE selectNode(setDragging(canvas, TRUE), id, FALSE),
                     FALSE),
                 ~Includes(canvas.selectedNodes, id), FALSE)
    /\ UNCHANGED <<pendingUpdate, nextId, rt>>

\* The end of an edge as handleDragMove sees it: the dragged node at its new
\* position, the other node as the store has it
DragEnd(end, node, newPosition, nodes) ==
    IF end = node.id THEN [node EXCEPT !.position = newPosition]
    ELSE FindNode(nodes, end)

DraggedEdge(edge, node, newPosition, nodes) ==
    IF /\ edge.sourceNodeId = node.id \/ edge.targetNodeId = node.id
       /\ edge.sourceNodeId = node.id \/ HasNode(nodes, edge.sourceNodeId)
       /\ edge.targetNodeId = node.id \/ HasNode(nodes, edge.targetNodeId)
    THEN Reanchored(edge,
                    DragEnd(edge.sourceNodeId, node, newPosition, nodes),
                    DragEnd(edge.targetNodeId, node, newPosition, nodes))
    ELSE edge

\* The setState calls of handleDragMove: tentative anchors of the node's edges
TentativeAnchors(s, node, newPosition) ==
    [s EXCEPT !.edges = [i \in DOMAIN s.edges |->
                            DraggedEdge(s.edges[i], node, newPosition, s.nodes)]]

\* CanvasNode.handleDragMove with the group dragged to newPosition; the call
\* of updateNode replaces what debouncedUpdateNode was holding
handleDragMove(id, newPosition) ==
    /\ HasNode(canvas.nodes, id)
    /\ canvas.isDragging /\ Includes(canvas.selectedNodes, id)
    /\ pendingUpdate' = [id |-> id, updates |-> [position |-> newPosition]]
    /\ StoreStep(TentativeAnchors(canvas, FindNode(canvas.nodes, id), newPosition),
                 FALSE, FALSE)
    /\ UNCHANGED <<nextId, rt>>

\* The 100 ms timer of debouncedUpdateNode fires
UpdateNodeFire ==
    /\ pendingUpdate # NoUpdate
    /\ StoreStep(ApplyNodeUpdate(canvas, pendingUpdate.id, pendingUpdate.updates),
                 TRUE, TRUE)
    /\ pendingUpdate' = NoUpdate
    /\ UNCHANGED <<nextId, rt>>

\* A flush that cancels the pending call instead of invoking it
flushCancels(s, pending) == s

\* flushUpdateNode(): debouncedUpdateNode.flush()
flushUpdateNode(s, pending) ==
    IF pending = NoUpdate THEN s
    ELSE ApplyNodeUpdate(s, pending.id, pending.updates)

\* CanvasNode.handleDragEnd
handleDragEnd(id) ==
    /\ HasNode(canvas.nodes, id)
    /\ canvas.isDragging /\ Includes(canvas.selectedNodes, id)
    /\ StoreStep(saveHistory(flushUpdateNode(setDragging(canvas, FALSE), pendingUpdate)),
                 pendingUpdate # NoUpdate, pendingUpdate # NoUpdate)
    /\ pendingUpdate' = NoUpdate
    /\ UNCHANGED <<nextId, rt>>

\* PropertyPanel.handleSizeChange(field, value); numValue = parseFloat(value) || 0
handleSizeChange(field, numValue) ==
    /\ PanelNode(canvas) # NoId
    /\ StoreStep(saveHistory(updateNodeSync(canvas, PanelNode(canvas),
                    [size |-> WithField(FindNode(canvas.nodes, PanelNode(canvas)).size,
                                        field, RMax(R(20), numValue))])),
                 TRUE, TRUE)
    /\ UNCHANGED <<pendingUpdate, nextId, rt>>

\* resizeEditor() of CanvasNode.handleTextEdit: the size that fits the text,
\* whose longest line measures measuredWidth px in lines lines
TextWidth(scale, measuredWidth) ==
    RAdd(RAdd(RDiv(measuredWidth, scale), R(16)), RMul(TEXT_NODE_PADDING, R(2)))

TextHeight(scale, lines) ==
    RAdd(RAdd(RDiv(RMul(R(lines), RMul(RMul(R(14), scale), Frac(6, 5))), scale), R(16)),
         RMul(TEXT_NODE_PADDING, R(2)))

resizeEditor(s, node, measuredWidth, lines) ==
    updateNodeSync(s, node.id,
        [size |-> [width |-> RMax(node.size.width,
                                  TextWidth(s.viewport.scale, measuredWidth)),
                   height |-> RMax(node.size.height,
                                   TextHeight(s.viewport.scale, lines))],
         text |-> node.text])

\* A double click on the node: handleTextEdit opens the editor on the node's
\* text and lays it out once
handleTextEdit(id, measuredWidth, lines) ==
    /\ HasNode(canvas.nodes, id)
    /\ StoreStep(resizeEditor(canvas, FindNode(canvas.nodes, id), measuredWidth, lines),
                 TRUE, TRUE)
    /\ UNCHANGED <<pendingUpdate, nextId, rt>>

InitGeom ==
    /\ canvas = addEdge(addNode(addNode(InitCanvas, 1, "rectangle", GridPosition(0)),
                                2, "ellipse", GridPosition(1)),
                        3, 1, 2)
    /\ pendingUpdate = NoUpdate
    /\ docSyncPending = TRUE
    /\ unsavedChanges = TRUE
    /\ mounted = Rendered(NoMounted, canvas.nodes)
    /\ nextId = 4
    /\ rt = Idle
    /\ AroundCanvas("anonymous")

\* Room for one more history entry
CanSnapshot == Len(canvas.history) < MaxSnapshots

\* The pointer works on the rectangle: it is dragged to DragTargets, its
\* handles to HandleTargets (screen positions), its text is 5 lines of at most
\* 200 px; the panel's fields receive PanelValues
GeomIds == {1}
DragTargets == {Pt(100, 300)}
HandleTargets == {Pt(90, 90)}
PanelValues == {R(10), R(150)}
Handles == 0 .. 7

NextGeom ==
    \/ \E id \in GeomIds : NodeClick(id, FALSE)
    \/ \E id \in GeomIds : handleDragStart(id)
    \/ \E id \in GeomIds, newPosition \in DragTargets : handleDragMove(id, newPosition)
    \/ UpdateNodeFire
    \/ \E id \in GeomIds : CanSnapshot /\ handleDragEnd(id)
    \/ \E id \in GeomIds, index \in Handles, newPos \in HandleTargets :
           CanSnapshot /\ ~canvas.isDragging /\ onHandleDragMove(id, index, newPos)
    \/ \E id \in GeomIds : CanSnapshot /\ ~canvas.isDragging /\ onHandleDragEnd(id)
    \/ \E field \in {"x", "y"}, numValue \in PanelValues :
           CanSnapshot /\ ~canvas.isDragging /\ handlePositionChange(field, numValue)
    \/ \E field \in {"width", "height"}, numValue \in PanelValues :
           CanSnapshot /\ ~canvas.isDragging /\ handleSizeChange(field, numValue)
    \/ \E id \in GeomIds : ~canvas.isDragging /\ handleTextEdit(id, R(200), 5)

SpecGeom == InitGeom /\ [][NextGeom]_vars

-----------------------------------------------------------------------------
(* The viewport: wheel zoom, zoom(delta, center), pinch zoom                 *)

\* Canvas.handleWheel with |deltaY| >= 5 and the pointer at pointer:
\* zoomDelta = deltaY > 0 ? -0.1 : 0.1
\* In the shared view the wheel zooms the Canvas's local copy of the viewport.
localZoom(prev, delta, center) ==
    ZoomedViewport(prev, center, ClampScale(RMul(prev.scale, RAdd(R(1), delta))))

localPan(prev, delta) ==
    [prev EXCEPT !.x = RAdd(prev.x, delta.x), !.y = RAdd(prev.y, delta.y)]

LocalViewportStep(viewport) ==
    /\ react' = [react EXCEPT !.localViewport = viewport]
    /\ UNCHANGED <<canvas, pendingUpdate, docSyncPending, unsavedChanges, mounted,
                   nextId, rt, documentStore, bridge, network>>

handleWheel(zoomIn, pointer) ==
    IF react.readOnly
    THEN LocalViewportStep(localZoom(react.localViewport,
                                     IF zoomIn THEN Frac(1, 10) ELSE Frac(-1, 10), pointer))
    ELSE /\ ~canvas.isDragging
         /\ StoreStep(zoom(canvas, IF zoomIn THEN Frac(1, 10) ELSE Frac(-1, 10), pointer),
                      FALSE, FALSE)
         /\ UNCHANGED <<pendingUpdate, nextId, rt>>

\* A direct call of the store's zoom(delta, center)
Zoom(delta, center) ==
    /\ StoreStep(zoom(canvas, delta, center), FALSE, FALSE)
    /\ UNCHANGED <<pendingUpdate, nextId, rt>>

\* Canvas.handleTouchMove with two touches whose centre is newCenter and whose
\* distance changed by delta = (newDist - lastDist) / lastDist, lastDist # 0
PinchScale(scale, delta) ==
    RMax(Frac(1, 4), RMin(R(2), RMul(scale, RAdd(R(1), RMul(delta, R(2))))))

PinchedViewport(viewport, delta, newCenter) ==
    ZoomedViewport(viewport, newCenter, PinchScale(viewport.scale, delta))

handleTouchMove(delta, newCenter) ==
    IF react.readOnly
    THEN LocalViewportStep(PinchedViewport(react.localViewport, delta, newCenter))
    ELSE /\ StoreStep(setViewport(canvas,
                                  PinchedViewport(canvas.viewport, delta, newCenter)),
                      FALSE, FALSE)
         /\ UNCHANGED <<pendingUpdate, nextId, rt>>

\* The viewports the exploration keeps: small denominators, near the origin
InView(viewport) ==
    /\ viewport.x[2] <= MaxDen /\ viewport.y[2] <= MaxDen /\ viewport.scale[2] <= MaxDen
    /\ Abs(viewport.x[1]) <= MaxPan * viewport.x[2]
    /\ Abs(viewport.y[1]) <= MaxPan * viewport.y[2]

Pointers == {Pt(0, 0), Pt(400, 300)}
ZoomDeltas == {Frac(1, 2), Frac(-1, 2), Frac(1, 10), Frac(-1, 10)}

NextZoom ==
    \/ \E zoomIn \in BOOLEAN, pointer \in Pointers :
           /\ InView(zoom(canvas, IF zoomIn THEN Frac(1, 10) ELSE Frac(-1, 10),
                          pointer).viewport)
           /\ handleWheel(zoomIn, pointer)
    \/ \E delta \in ZoomDeltas, center \in Pointers :
           /\ InView(zoom(canvas, delta, center).viewport)
           /\ Zoom(delta, center)

SpecZoom == Init /\ [][NextZoom]_vars

-----------------------------------------------------------------------------
(* Imported files *)

\* The values JSON.parse gives the keys of an imported file: an array, another
\* truthy value (an object, a non-empty string), or a falsy one (null, 0, "")
JArray(items) == [array |-> TRUE, truthy |-> TRUE, value |-> items]
JObject(value) == [array |-> FALSE, truthy |-> TRUE, value |-> value]
JNull == [array |-> FALSE, truthy |-> FALSE, value |-> <<>>]

\* parsed[key]; undefined when the file has no such key
Key(parsed, key) == IF key \in DOMAIN parsed THEN parsed[key] ELSE JNull

\* A faulty validation, which does not look at the viewport
ImportRejectsIgnoringViewport(parsed) ==
    ~Key(parsed, "nodes").truthy \/ ~Key(parsed, "edges").truthy

\* !parsed.nodes || !parsed.edges || !parsed.viewport
ImportRejects(parsed) ==
    \/ ~Key(parsed, "nodes").truthy
    \/ ~Key(parsed, "edges").truthy
    \/ ~Key(parsed, "viewport").truthy

ArrayOrEmpty(v) == IF v.array THEN v.value ELSE <<>>

validatedState(parsed) ==
    [nodes |-> ArrayOrEmpty(Key(parsed, "nodes")),
     edges |-> ArrayOrEmpty(Key(parsed, "edges")),
     viewport |-> IF Key(parsed, "viewport").truthy
                  THEN Key(parsed, "viewport").value ELSE DEFAULT_VIEWPORT,
     selectedNodes |-> <<>>, selectedEdges |-> <<>>]

-----------------------------------------------------------------------------
(* The document store *)

HasDocument(d, id) == \E i \in DOMAIN d.documents : d.documents[i].id = id
FindDocument(d, id) ==
    d.documents[CHOOSE i \in DOMAIN d.documents : d.documents[i].id = id]

IsAuthenticated(net) == net.auth \in {"authenticated", "noToken"}

\* store.lastSavedState[id] || { nodes: [], edges: [] }
LastSaved(d, id) ==
    IF id \in DOMAIN d.lastSavedState THEN d.lastSavedState[id] ELSE NothingSaved

hasContentChanged(d, id, state) ==
    state.nodes # LastSaved(d, id).nodes \/ state.edges # LastSaved(d, id).edges

\* updateDocumentState(id, state), state carrying nodes and edges
updateDocumentState(d, isAuthenticated, id, state) ==
    [d EXCEPT !.documents =
                 [i \in DOMAIN d.documents |->
                     IF d.documents[i].id = id
                     THEN [d.documents[i] EXCEPT !.state = Merge(@, state)]
                     ELSE d.documents[i]],
              !.isAutoSaving = isAuthenticated /\ hasContentChanged(d, id, state)]

\* ... which schedules debouncedAutoSave(id) for a signed-in user
AutoSaveScheduled(net, d, id, state) ==
    IF IsAuthenticated(net) /\ hasContentChanged(d, id, state)
    THEN [net EXCEPT !.autoSave = id] ELSE net

\* AppLayout's effect on [activeDocumentId, documents]: it runs whenever the
\* documents array is replaced, unless a shared canvas is shown
LoadEffect(s, d, shared) ==
    IF shared THEN s
    ELSE IF HasDocument(d, d.activeDocumentId)
         THEN loadCanvas(s, FindDocument(d, d.activeDocumentId).state)
         ELSE clear(s)

-----------------------------------------------------------------------------
(* Importing a file *)

\* What Toolbar.handleImport leaves in the two stores
ImportedDocuments(d, isAuthenticated, parsed) ==
    IF ImportRejects(parsed) THEN d
    ELSE updateDocumentState(d, isAuthenticated, d.activeDocumentId,
                             validatedState(parsed))

ImportedCanvas(s, d, isAuthenticated, parsed) ==
    IF ImportRejects(parsed) THEN s
    ELSE LoadEffect(loadCanvas(s, validatedState(parsed)),
                    ImportedDocuments(d, isAuthenticated, parsed), FALSE)

Notified(r, notification) == [r EXCEPT !.notification = notification]

\* Toolbar.handleImport once the FileReader has the file's content, parsed
handleImport(parsed) ==
    /\ IF react.readOnly \/ ImportRejects(parsed)
       THEN /\ react' = Notified(react, IF react.readOnly
                                        THEN "Cannot import in read-only mode"
                                        ELSE "Failed to import document")
            /\ UNCHANGED <<canvas, mounted, docSyncPending, unsavedChanges,
                           documentStore, network>>
       ELSE /\ CanvasStep(ImportedCanvas(canvas, documentStore,
                                         IsAuthenticated(network), parsed),
                          ImportedCanvas(canvas, documentStore,
                                         IsAuthenticated(network), parsed) # canvas,
                          TRUE)
            /\ documentStore' = ImportedDocuments(documentStore,
                                                  IsAuthenticated(network), parsed)
            /\ network' = AutoSaveScheduled(network, documentStore,
                                            documentStore.activeDocumentId,
                                            validatedState(parsed))
            /\ react' = Notified(react, "Document imported successfully")
    /\ UNCHANGED <<pendingUpdate, nextId, rt, bridge>>

\* A file as the export writes it, a file written by hand, files that lack a
\* key or carry null for it, and a file whose nodes are not an array
ExportedFile ==
    [nodes |-> JArray(<<NewNode(1, "rectangle", GridPosition(0))>>),
     edges |-> JArray(<<>>),
     viewport |-> JObject(DEFAULT_VIEWPORT)]
HandWrittenFile ==
    [nodes |-> JArray(<<[NewNode(1, "rectangle", GridPosition(0))
                           EXCEPT !.size = [width |-> R(10), height |-> R(10)]]>>),
     edges |-> JArray(<<>>),
     viewport |-> JObject([x |-> R(0), y |-> R(0), scale |-> R(3)])]
FileWithoutViewport ==
    [nodes |-> JArray(<<NewNode(2, "ellipse", GridPosition(1))>>),
     edges |-> JArray(<<>>)]
FileWithNullEdges ==
    [nodes |-> JArray(<<NewNode(2, "ellipse", GridPosition(1))>>),
     edges |-> JNull,
     viewport |-> JObject(DEFAULT_VIEWPORT)]
FileWithoutNodes ==
    [edges |-> JArray(<<>>), viewport |-> JObject(DEFAULT_VIEWPORT)]
FileWithNodesObject ==
    [nodes |-> JObject(NewNode(2, "ellipse", GridPosition(1))),
     edges |-> JArray(<<>>),
     viewport |-> JObject([x |-> R(10), y |-> R(0), scale |-> R(1)])]
ImportFiles ==
    {ExportedFile, HandWrittenFile, FileWithoutViewport, FileWithNullEdges,
     FileWithoutNodes, FileWithNodesObject}

NextImport ==
    \/ \E id \in Ids : NodeClick(id, FALSE)
    \/ \E parsed \in ImportFiles : CanCommit(1) /\ handleImport(parsed)
    \/ \E field \in {"width", "height"} : CanCommit(1) /\ handleSizeChange(field, R(10))
    \/ \E zoomIn \in BOOLEAN :
           /\ InView(zoom(canvas, IF zoomIn THEN Frac(1, 10) ELSE Frac(-1, 10),
                          Pt(400, 300)).viewport)
           /\ handleWheel(zoomIn, Pt(400, 300))
    \/ \E delta \in {Frac(1, 4), Frac(-1, 4)} :
           /\ InView(PinchedViewport(canvas.viewport, delta, Pt(400, 300)))
           /\ handleTouchMove(delta, Pt(400, 300))
    \/ ClearButton
    \/ Undo
    \/ Redo

SpecImport == Init /\ [][NextImport]_vars

-----------------------------------------------------------------------------
(* The property panel: two connected nodes, the first of any type, whose     *)
(* position and size fields are typed over.                                   *)

InitPanel ==
    /\ \E type \in NodeTypes :
           canvas = addEdge(addNode(addNode(InitCanvas, 1, type, GridPosition(0)),
                                    2, "ellipse", GridPosition(1)),
                            3, 1, 2)
    /\ pendingUpdate = NoUpdate
    /\ docSyncPending = TRUE
    /\ unsavedChanges = TRUE
    /\ mounted = Rendered(NoMounted, canvas.nodes)
    /\ nextId = 4
    /\ rt = Idle
    /\ AroundCanvas("anonymous")

\* What is typed into the panel's x / y and width / height fields
PanelCoords == {R(100), R(250)}
PanelSizes == {R(10), R(200)}

NextPanel ==
    \/ \E id \in Ids : NodeClick(id, FALSE)
    \/ \E field \in {"x", "y"}, numValue \in PanelCoords :
           CanSnapshot /\ handlePositionChange(field, numValue)
    \/ \E field \in {"width", "height"}, numValue \in PanelSizes :
           CanSnapshot /\ handleSizeChange(field, numValue)
    \/ Undo
    \/ Redo

SpecPanel == InitPanel /\ [][NextPanel]_vars

-----------------------------------------------------------------------------
(* The shared view: the page opened with ?share=<id> fetches a document and  *)
(* shows it read-only.                                                        *)

\* AppLayout's share effect, the fetch answered with the document parsed:
\* setSharedCanvasState, setReadOnly(true); the Canvas copies the shared
\* viewport into localViewport and the Toolbar's effect calls setTool('hand').
ShareFetched(parsed) ==
    /\ ~react.readOnly
    /\ react' = [react EXCEPT !.readOnly = TRUE,
                              !.localViewport = validatedState(parsed).viewport]
    /\ CanvasStep(setTool(canvas, "hand"), FALSE, FALSE)
    /\ UNCHANGED <<pendingUpdate, nextId, rt, documentStore, bridge, network>>

\* The Canvas installs its keydown listener in an effect with no dependencies:
\* the listener tests the readOnly and canvasState of the Canvas's first
\* render, when AppLayout's readOnly is false and sharedCanvasState is null.
KeyDownReadOnly == FALSE

Keys == {"Delete", "z", "Z"}

\* keydown outside an input: Delete / Backspace, Ctrl+Z, Ctrl+Shift+Z
handleKeyDown(key) ==
    IF KeyDownReadOnly THEN UNCHANGED vars
    ELSE CASE key = "Delete" -> KeyDelete
           [] key = "z" -> Undo
           [] key = "Z" -> Redo

\* Mouse down on the stage and a move by delta in the shared view
ReadOnlyPanDrag(delta) ==
    /\ react.readOnly
    /\ LocalViewportStep(localPan(react.localViewport, delta))

PanDeltas == {Pt(400, 0), Pt(-400, 0)}

NextShared ==
    \/ \E shapeType \in ToolbarShapes : ~react.readOnly /\ handleShapeClick(shapeType)
    \/ \E id \in Ids : ~react.readOnly /\ NodeClick(id, FALSE)
    \/ ShareFetched(ExportedFile)
    \/ \E key \in Keys : react.readOnly /\ handleKeyDown(key)
    \/ \E zoomIn \in BOOLEAN :
           /\ react.readOnly
           /\ InView(localZoom(react.localViewport,
                               IF zoomIn THEN Frac(1, 10) ELSE Frac(-1, 10), Pt(400, 300)))
           /\ handleWheel(zoomIn, Pt(400, 300))
    \/ /\ react.readOnly              \* one pinch, from the shared viewport
       /\ react.localViewport = validatedState(ExportedFile).viewport
       /\ handleTouchMove(Frac(1, 4), Pt(400, 300))
    \/ \E delta \in PanDeltas :
           /\ InView(localPan(react.localViewport, delta))
           /\ ReadOnlyPanDrag(delta)

SpecShared == Init /\ [][NextShared]_vars

-----------------------------------------------------------------------------
(* The sync bridge and the document tabs: edits of the open document, the    *)
(* debounce timer, the deferred updateDocumentState and a rename of the tab. *)

\* The canvas store after the documents array was replaced by d.documents:
\* AppLayout's load-canvas effect has run.  loadCanvas and clear call
\* debouncedUpdateDocument() unless loadCanvas returned early.
DocumentsStep(s2, unsaved) ==
    CanvasStep(s2, s2 # canvas, unsaved)

\* The setTimeout(0) callback queued by updateDocument
UpdateDocumentStateFire ==
    /\ bridge.timeouts # <<>>
    /\ bridge' = [bridge EXCEPT !.timeouts = Tail(@)]
    /\ documentStore' = updateDocumentState(documentStore, IsAuthenticated(network),
                            Head(bridge.timeouts).id, Head(bridge.timeouts).state)
    /\ network' = AutoSaveScheduled(network, documentStore,
                            Head(bridge.timeouts).id, Head(bridge.timeouts).state)
    /\ DocumentsStep(LoadEffect(canvas,
                         updateDocumentState(documentStore, IsAuthenticated(network),
                             Head(bridge.timeouts).id, Head(bridge.timeouts).state),
                         react.readOnly),
                     /\ IsAuthenticated(network)
                     /\ hasContentChanged(documentStore, Head(bridge.timeouts).id,
                                          Head(bridge.timeouts).state))
    /\ UNCHANGED <<pendingUpdate, nextId, rt, react>>

renameDocument(d, id, name) ==
    [d EXCEPT !.documents =
        [i \in DOMAIN d.documents |->
            IF d.documents[i].id = id THEN [d.documents[i] EXCEPT !.name = name]
            ELSE d.documents[i]]]

TabNames == {"Plan"}

\* AppLayout.handleRename(id) with tabName.trim() = tabName, not empty
handleRename(id, tabName) ==
    /\ documentStore' = renameDocument(documentStore, id, tabName)
    /\ DocumentsStep(LoadEffect(canvas, renameDocument(documentStore, id, tabName),
                                react.readOnly), FALSE)
    /\ UNCHANGED <<pendingUpdate, nextId, rt, bridge, network, react>>

MaxTimeouts == 2

NextSync ==
    \/ \E shapeType \in ToolbarShapes : handleShapeClick(shapeType)
    \/ \E id \in GeomIds : NodeClick(id, FALSE)
    \/ /\ canvas.viewport = DEFAULT_VIEWPORT        \* one notch of the wheel
       /\ handleWheel(TRUE, Pt(400, 300))
    \/ Len(bridge.timeouts) < MaxTimeouts /\ DocSyncFire
    \/ CanCommit(1) /\ UpdateDocumentStateFire
    \/ \E tabName \in TabNames :
           CanCommit(1) /\ handleRename(ActiveDocumentId, tabName)

SpecSync == Init /\ [][NextSync]_vars

-----------------------------------------------------------------------------
(* Autosave: updateDocumentState schedules debouncedAutoSave(id) for a       *)
(* signed-in user; 2000 ms later the document is written to the browser's    *)
(* storage or sent to the server by saveDocument (a GET to see whether it    *)
(* exists, then a POST or PUT).  network.requests holds the saveDocument     *)
(* calls that await a response; network.settled tells how the last one or    *)
(* the last timer ended.                                                     *)

\* saveDocument's validatedState, the state stored or sent: every array field
\* is kept when it is an array, every other field is `state.field || default`
ArrayField(state, field) == IF field \in DOMAIN state THEN state[field] ELSE <<>>

OrDefault(state, field, falsy, default) ==
    IF field \in DOMAIN state /\ state[field] # falsy THEN state[field] ELSE default

SentState(state) ==
    [nodes |-> ArrayField(state, "nodes"),
     edges |-> ArrayField(state, "edges"),
     selectedNodes |-> ArrayField(state, "selectedNodes"),
     selectedEdges |-> ArrayField(state, "selectedEdges"),
     viewport |-> IF "viewport" \in DOMAIN state THEN state.viewport
                  ELSE DEFAULT_VIEWPORT,
     tool |-> OrDefault(state, "tool", "", "select"),
     isConnecting |-> OrDefault(state, "isConnecting", FALSE, FALSE),
     connectionSource |-> OrDefault(state, "connectionSource", NoId, NoId),
     history |-> ArrayField(state, "history"),
     historyIndex |-> OrDefault(state, "historyIndex", 0, -1),
     isDragging |-> OrDefault(state, "isDragging", FALSE, FALSE),
     isPanning |-> OrDefault(state, "isPanning", FALSE, FALSE),
     selectionBox |-> OrDefault(state, "selectionBox", NullBox, NullBox)]

\* What the toolbar shows when the saveDocument it awaited has ended
SaveNotice(r, caller, notification) ==
    IF caller = "toolbar" THEN Notified(r, notification) ELSE r

SavedContent(state) == [nodes |-> JsonClone(state.nodes), edges |-> JsonClone(state.edges)]

\* A faulty catch block, which leaves the flag as it is
saveFailedKeepingFlag(d) == d

\* saveDocument's catch block, and the .catch of debouncedAutoSave
saveFailed(d) == [d EXCEPT !.isAutoSaving = FALSE]

\* debouncedAutoSave for a visitor who is not signed in, the document found
storedLocally(d, id) ==
    [d EXCEPT !.lastSavedState = (id :> SavedContent(FindDocument(d, id).state)) @@ @,
              !.isAutoSaving = FALSE]

\* saveDocument after the server accepted the state sent
saveSucceeded(d, id, sent) ==
    [d EXCEPT !.lastSavedState = (id :> SavedContent(sent)) @@ @,
              !.isAutoSaving = FALSE]

\* finalUnsaved includes id: the document has moved on since the request
hasPendingChanges(d, id, sent) ==
    /\ HasDocument(d, id)
    /\ SavedContent(FindDocument(d, id).state) # SavedContent(sent)

Settled(net, how) == [net EXCEPT !.settled = how]

\* The document store moves to d2, the session and its requests to net2, and
\* the component that awaited the call shows what r2 holds
DocumentStoreNotice(d2, net2, unsaved, r2) ==
    /\ documentStore' = d2
    /\ network' = net2
    /\ unsavedChanges' = unsaved
    /\ react' = r2
    /\ UNCHANGED <<canvas, pendingUpdate, docSyncPending, mounted, nextId, rt, bridge>>

DocumentStoreStep(d2, net2, unsaved) ==
    DocumentStoreNotice(d2, net2, unsaved, react)

\* The 2000 ms timer of debouncedAutoSave(id) fires
AutoSaveFire ==
    /\ network.autoSave # NoTimer
    /\ IF ~IsAuthenticated(network)
       THEN IF HasDocument(documentStore, network.autoSave)
            THEN DocumentStoreStep(storedLocally(documentStore, network.autoSave),
                     Settled([network EXCEPT !.autoSave = NoTimer], "stored"),
                     unsavedChanges /\ network.autoSave # documentStore.activeDocumentId)
            ELSE DocumentStoreStep(saveFailed(documentStore),
                     Settled([network EXCEPT !.autoSave = NoTimer], "gone"),
                     unsavedChanges)
       ELSE IF ~HasDocument(documentStore, network.autoSave)
            THEN DocumentStoreStep(saveFailed(documentStore),
                     Settled([network EXCEPT !.autoSave = NoTimer], "gone"),
                     unsavedChanges)
            ELSE IF network.auth = "noToken"
                 THEN DocumentStoreStep(saveFailed(documentStore),
                          Settled([network EXCEPT !.autoSave = NoTimer], "noToken"),
                          unsavedChanges)
                 ELSE DocumentStoreStep([documentStore EXCEPT !.isAutoSaving = TRUE],
                          [network EXCEPT !.autoSave = NoTimer,
                              !.requests = Append(@,
                                  [id |-> network.autoSave, method |-> "GET",
                                   caller |-> "autosave",
                                   state |-> SentState(FindDocument(documentStore,
                                                           network.autoSave).state)])],
                          unsavedChanges)

Answered(net, i) ==
    [net EXCEPT !.requests = SubSeq(@, 1, i - 1) \o SubSeq(@, i + 1, Len(@))]

CheckStatuses == {"ok", "404", "500", "rejected"}
SaveStatuses == {"ok", "500", "rejected"}

\* The GET of request i is answered: 200 or 404 lead to the PUT or POST, any
\* other status and a rejected fetch throw
CheckReturns(i, status) ==
    /\ i \in DOMAIN network.requests
    /\ network.requests[i].method = "GET"
    /\ IF status \in {"ok", "404"}
       THEN DocumentStoreStep(documentStore,
                [network EXCEPT !.requests[i].method =
                                    IF status = "ok" THEN "PUT" ELSE "POST"],
                unsavedChanges)
       ELSE DocumentStoreNotice(saveFailed(documentStore),
                Settled(Answered(network, i), "failed"), unsavedChanges,
                SaveNotice(react, network.requests[i].caller, "Failed to save document"))

\* The PUT or POST of request i is answered
SaveReturns(i, status) ==
    /\ i \in DOMAIN network.requests
    /\ network.requests[i].method \in {"PUT", "POST"}
    /\ IF status = "ok"
       THEN DocumentStoreNotice(
                saveSucceeded(documentStore, network.requests[i].id,
                              network.requests[i].state),
                Settled(Answered(network, i), "saved"),
                IF network.requests[i].id = documentStore.activeDocumentId
                THEN hasPendingChanges(documentStore, network.requests[i].id,
                                       network.requests[i].state)
                ELSE unsavedChanges,
                SaveNotice(react, network.requests[i].caller, "Document saved"))
       ELSE DocumentStoreNotice(saveFailed(documentStore),
                Settled(Answered(network, i), "failed"), unsavedChanges,
                SaveNotice(react, network.requests[i].caller, "Failed to save document"))

\* useAuthStore.logout()
logout ==
    /\ IsAuthenticated(network)
    /\ DocumentStoreStep(documentStore, [network EXCEPT !.auth = "anonymous"],
                         unsavedChanges)

Sessions == {"anonymous", "authenticated", "noToken"}
MaxRequests == 2

InitSave ==
    /\ canvas = InitCanvas
    /\ pendingUpdate = NoUpdate
    /\ docSyncPending = FALSE
    /\ unsavedChanges = FALSE
    /\ mounted = NoMounted
    /\ nextId = 1
    /\ rt = Idle
    /\ \E auth \in Sessions : AroundCanvas(auth)

RequestReturns ==
    \E i \in 1 .. MaxRequests :
        \/ \E status \in CheckStatuses : CheckReturns(i, status)
        \/ \E status \in SaveStatuses : SaveReturns(i, status)

AutoSaveTimer == Len(network.requests) < MaxRequests /\ AutoSaveFire

NextSave ==
    \/ \E shapeType \in ToolbarShapes : handleShapeClick(shapeType)
    \/ Len(bridge.timeouts) < MaxTimeouts /\ DocSyncFire
    \/ CanCommit(1) /\ UpdateDocumentStateFire
    \/ AutoSaveTimer
    \/ RequestReturns
    \/ logout

\* The 2000 ms timer fires and every request is answered or rejected
SpecSave ==
    /\ InitSave /\ [][NextSave]_vars
    /\ WF_vars(AutoSaveTimer)
    /\ WF_vars(RequestReturns)

-----------------------------------------------------------------------------
(* Loading the documents of a signed-in user: loadDocuments() is awaited by  *)
(* the auth store after login, register and checkAuth.                       *)

\* reset(): one fresh default document replaces everything
reset(d, newDocId) == FreshDocumentStore(newDocId)

\* uuidv4() for a document
FreshDocumentId(d) == d.activeDocumentId + 1
MaxDocumentId == 2

\* loadDocuments() up to its fetch.  Nothing is in localStorage for a user
\* who has been signed in all along, so syncUnauthorizedDocument returns at
\* once; without a token the store is reset.
loadDocuments ==
    /\ IsAuthenticated(network)
    /\ IF network.auth = "noToken"
       THEN /\ documentStore' = reset(documentStore, FreshDocumentId(documentStore))
            /\ network' = Settled(network, "noToken")
            /\ DocumentsStep(LoadEffect(canvas,
                                 reset(documentStore, FreshDocumentId(documentStore)),
                                 react.readOnly), FALSE)
            /\ UNCHANGED <<pendingUpdate, nextId, rt, bridge, react>>
       ELSE DocumentStoreStep(documentStore,
                [network EXCEPT !.requests =
                    Append(@, [id |-> NoId, method |-> "LIST", caller |-> "auth",
                               state |-> NoState])],
                unsavedChanges)

ListStatuses == {"empty", "500", "rejected"}

\* The GET /api/documents of request i is answered: with an empty list, with
\* an error status, or the fetch is rejected.  All three end in reset().
ListReturns(i, status) ==
    /\ i \in DOMAIN network.requests
    /\ network.requests[i].method = "LIST"
    /\ documentStore' = reset(documentStore, FreshDocumentId(documentStore))
    /\ network' = Settled(Answered(network, i),
                          IF status = "empty" THEN "loaded" ELSE "failed")
    /\ DocumentsStep(LoadEffect(canvas,
                         reset(documentStore, FreshDocumentId(documentStore)),
                         react.readOnly), FALSE)
    /\ UNCHANGED <<pendingUpdate, nextId, rt, bridge, react>>

NextLoad ==
    \/ \E shapeType \in ToolbarShapes : handleShapeClick(shapeType)
    \/ Len(bridge.timeouts) < MaxTimeouts /\ DocSyncFire
    \/ CanCommit(1) /\ UpdateDocumentStateFire
    \/ AutoSaveTimer
    \/ \E i \in 1 .. MaxRequests :
           \/ \E status \in CheckStatuses : CheckReturns(i, status)
           \/ \E status \in SaveStatuses : SaveReturns(i, status)
           \/ \E status \in ListStatuses :
                  /\ CanCommit(1) /\ FreshDocumentId(documentStore) <= MaxDocumentId
                  /\ ListReturns(i, status)
    \/ /\ Len(network.requests) < MaxRequests
       /\ CanCommit(1) /\ FreshDocumentId(documentStore) <= MaxDocumentId
       /\ loadDocuments

SpecLoad == InitSave /\ [][NextLoad]_vars

-----------------------------------------------------------------------------
(* Dragging the source node of an edge: the rectangle at (100,100) and the   *)
(* ellipse, moved to (300,100) by typing 300 into the panel's x field, both  *)
(* 120x80 and joined by an edge from the rectangle to the ellipse.           *)

ConnectedPair ==
    saveHistory(updateNodeSync(
        addEdge(addNode(addNode(InitCanvas, 1, "rectangle", GridPosition(0)),
                        2, "ellipse", GridPosition(1)),
                3, 1, 2),
        2, [position |-> Pt(300, 100)]))

InitDrag ==
    /\ canvas = ConnectedPair
    /\ pendingUpdate = NoUpdate
    /\ docSyncPending = TRUE
    /\ unsavedChanges = TRUE
    /\ mounted = Rendered(NoMounted, canvas.nodes)
    /\ nextId = 4
    /\ rt = Idle
    /\ AroundCanvas("anonymous")

DragPositions == {Pt(100, 300), Pt(100, 200), Pt(300, 300), Pt(100, 100)}

NextDrag ==
    \/ \E id \in GeomIds : NodeClick(id, FALSE)
    \/ \E id \in GeomIds : handleDragStart(id)
    \/ \E id \in GeomIds, newPosition \in DragPositions : handleDragMove(id, newPosition)
    \/ UpdateNodeFire
    \/ \E id \in GeomIds : CanSnapshot /\ handleDragEnd(id)

SpecDrag == InitDrag /\ [][NextDrag]_vars

-----------------------------------------------------------------------------
(* Saving from the toolbar: handleSave hands the whole canvas state to       *)
(* saveDocument, which sends its validatedState to the server.               *)

\* The state Toolbar.handleSave builds from the canvas store
SaveState(s) ==
    [nodes |-> s.nodes, edges |-> s.edges, viewport |-> s.viewport,
     tool |-> s.tool, isConnecting |-> s.isConnecting, connectionSource |-> NoId,
     history |-> s.history, historyIndex |-> s.historyIndex,
     isDragging |-> FALSE, isPanning |-> FALSE,
     selectedNodes |-> <<>>, selectedEdges |-> <<>>, selectionBox |-> NullBox]

\* Toolbar.handleSave up to the first await of saveDocument
handleSave ==
    IF react.readOnly
    THEN DocumentStoreNotice(documentStore, network, unsavedChanges,
                             Notified(react, "Cannot save in read-only mode"))
    ELSE IF ~IsAuthenticated(network)
    THEN DocumentStoreNotice(documentStore, network, unsavedChanges,
                             Notified(react, "Please log in to save your document"))
    ELSE IF network.auth = "noToken"
    THEN DocumentStoreNotice(saveFailed(documentStore), Settled(network, "noToken"),
                             unsavedChanges,
                             Notified(react, "Failed to save document"))
    ELSE DocumentStoreNotice([documentStore EXCEPT !.isAutoSaving = TRUE],
             [network EXCEPT !.requests =
                 Append(@, [id |-> documentStore.activeDocumentId, method |-> "GET",
                            caller |-> "toolbar",
                            state |-> SentState(SaveState(canvas))])],
             unsavedChanges, react)

NextPersist ==
    \/ \E shapeType \in ToolbarShapes : handleShapeClick(shapeType)
    \/ handleTextClick
    \/ Len(network.requests) < MaxRequests /\ handleSave
    \/ RequestReturns

SpecPersist == InitSave /\ [][NextPersist]_vars

-----------------------------------------------------------------------------
(* The property panel's text, colour and stroke fields and its Duplicate     *)
(* button: they call the debounced updateNode and then saveHistory.          *)

\* PropertyPanel.handleTextChange(value)
handleTextChange(value) ==
    /\ PanelNode(canvas) # NoId
    /\ pendingUpdate' = [id |-> PanelNode(canvas), updates |-> [text |-> value]]
    /\ StoreStep(saveHistory(canvas), FALSE, FALSE)
    /\ UNCHANGED <<nextId, rt>>

\* PropertyPanel.handleColorChange(field, value)
ColorUpdate(field, value) ==
    IF field = "fill" THEN [fill |-> value] ELSE [stroke |-> value]

handleColorChange(field, value) ==
    /\ PanelNode(canvas) # NoId
    /\ pendingUpdate' = [id |-> PanelNode(canvas), updates |-> ColorUpdate(field, value)]
    /\ StoreStep(saveHistory(canvas), FALSE, FALSE)
    /\ UNCHANGED <<nextId, rt>>

\* PropertyPanel.handleStrokeWidthChange(value); numValue = parseFloat(value) || 0
handleStrokeWidthChange(numValue) ==
    /\ PanelNode(canvas) # NoId
    /\ pendingUpdate' = [id |-> PanelNode(canvas),
                         updates |-> [strokeWidth |-> RMax(R(0), numValue)]]
    /\ StoreStep(saveHistory(canvas), FALSE, FALSE)
    /\ UNCHANGED <<nextId, rt>>

\* The onClick of the panel's Duplicate button: addNode, then updateNode of
\* the last node with the selected node's looks, then saveHistory
DuplicateOnClick ==
    /\ PanelNode(canvas) # NoId
    /\ RoomForNode
    /\ LET selectedNode == FindNode(canvas.nodes, PanelNode(canvas))
       IN  /\ pendingUpdate' =
                  [id |-> nextId,
                   updates |-> [text |-> selectedNode.text,
                                fill |-> selectedNode.fill,
                                stroke |-> selectedNode.stroke,
                                strokeWidth |-> selectedNode.strokeWidth,
                                size |-> selectedNode.size]]
           /\ StoreStep(saveHistory(addNode(canvas, nextId, selectedNode.type,
                            Point(RAdd(selectedNode.position.x, R(20)),
                                  RAdd(selectedNode.position.y, R(20))))),
                        TRUE, TRUE)
    /\ nextId' = nextId + 1
    /\ UNCHANGED rt

\* What is typed into the panel's text, colour and stroke-width fields
PanelTexts == {"Start"}
PanelColors == {"#ff0000"}
PanelStrokes == {R(4), R(-1)}

NextEdit ==
    \/ \E id \in {1, 2} : NodeClick(id, FALSE)
    \/ \E value \in PanelTexts : CanSnapshot /\ handleTextChange(value)
    \/ \E field \in {"fill", "stroke"}, value \in PanelColors :
           CanSnapshot /\ handleColorChange(field, value)
    \/ \E numValue \in PanelStrokes : CanSnapshot /\ handleStrokeWidthChange(numValue)
    \/ CanSnapshot /\ DuplicateOnClick
    \/ UpdateNodeFire
    \/ \E id \in GeomIds : handleDragStart(id)
    \/ \E id \in GeomIds, newPosition \in DragTargets : handleDragMove(id, newPosition)
    \/ \E id \in GeomIds : CanSnapshot /\ handleDragEnd(id)

SpecEdit == InitGeom /\ [][NextEdit]_vars

-----------------------------------------------------------------------------
(* Selecting: clicks on nodes and edges, the selection box dragged over the  *)
(* empty canvas, and the toolbar's buttons that select what they add, on the *)
(* connected rectangle and ellipse.                                          *)

\* Canvas.handleStageMouseDown: the left button goes down on the empty stage
\* at worldPos, no input field has the focus
handleStageMouseDown(worldPos) ==
    /\ ~react.readOnly
    /\ IF canvas.tool = "select"
       THEN StoreStep(startSelectionBox(clearSelection(canvas), worldPos), TRUE, FALSE)
       ELSE IF canvas.tool = "line"
            THEN StoreStep(cancelConnection(canvas), FALSE, FALSE)
            ELSE StoreStep(canvas, FALSE, FALSE)
    /\ UNCHANGED <<pendingUpdate, nextId, rt>>

\* Canvas.handleStageMouseMove to worldPos while the canvas is not panned
MouseMoveBox(s, worldPos) ==
    IF s.selectionBox.active THEN updateSelectionBox(s, worldPos) ELSE s

MouseMoveStore(s, worldPos) ==
    IF s.isDragConnecting THEN updateTempTarget(MouseMoveBox(s, worldPos), worldPos)
    ELSE MouseMoveBox(s, worldPos)

handleStageMouseMove(worldPos) ==
    /\ ~react.readOnly
    /\ ~canvas.isPanning
    /\ StoreStep(MouseMoveStore(canvas, worldPos), FALSE, FALSE)
    /\ UNCHANGED <<pendingUpdate, nextId, rt>>

\* A direct call of the store's selectNodes(ids)
SelectNodes(ids) ==
    /\ StoreStep(selectNodes(canvas, ids), TRUE, FALSE)
    /\ UNCHANGED <<pendingUpdate, nextId, rt>>

\* Where the pointer goes down, moves to and comes up on the empty canvas
BoxCorners == {Pt(0, 0), Pt(150, 150), Pt(400, 400)}
NodeLists == {<<1, 2>>, <<2>>}

NextSelect ==
    \/ \E id \in {1, 2}, ctrlKey \in BOOLEAN : NodeClick(id, ctrlKey)
    \/ \E id \in Ids, ctrlKey \in BOOLEAN : onEdgeClick(id, ctrlKey)
    \/ \E worldPos \in BoxCorners : handleStageMouseDown(worldPos)
    \/ \E worldPos \in BoxCorners :
           canvas.selectionBox.active /\ handleStageMouseMove(worldPos)
    \/ canvas.selectionBox.active /\ handleStageMouseUp(NoId)
    \/ \E ids \in NodeLists : SelectNodes(ids)
    \/ \E shapeType \in ToolbarShapes : handleShapeClick(shapeType)
    \/ handleTextClick
    \/ DuplicateButton

SpecSelect == InitGeom /\ [][NextSelect]_vars

-----------------------------------------------------------------------------
(* Connection gestures that are given up: in connect mode a click on the     *)
(* source node or on the empty canvas, and a drag from a connector that is   *)
(* released over no node or over the source node.                            *)

\* Where the pointer of a drag connection moves to
TempTargets == {Pt(400, 400)}

NextCancel ==
    \/ \E shapeType \in ToolbarShapes : handleShapeClick(shapeType)
    \/ \E tool \in Tools : ToolButtonClick(tool)
    \/ \E id \in Ids, ctrlKey \in BOOLEAN : NodeClick(id, ctrlKey)
    \/ \E id \in Ids : ConnectorMouseDown(id)
    \/ \E worldPos \in TempTargets : handleStageMouseDown(worldPos)
    \/ \E worldPos \in TempTargets :
           canvas.isDragConnecting /\ handleStageMouseMove(worldPos)
    \/ \E id \in Ids \cup {NoId} : handleStageMouseUp(id)
    \/ Undo

SpecCancel == Init /\ [][NextCancel]_vars

-----------------------------------------------------------------------------
(* A pending connection while the model changes under it: with the line tool *)
(* a source node is clicked, then the Delete key, the Clear button or Undo   *)
(* follow.                                                                    *)

NextPending ==
    \/ \E shapeType \in ToolbarShapes : handleShapeClick(shapeType)
    \/ handleTextClick
    \/ \E tool \in Tools : ToolButtonClick(tool)
    \/ \E id \in Ids, ctrlKey \in BOOLEAN : NodeClick(id, ctrlKey)
    \/ KeyDelete
    \/ ClearButton
    \/ Undo
    \/ Redo

SpecPending == Init /\ [][NextPending]_vars

-----------------------------------------------------------------------------
(* The history cursor: the long resize drag that fills the history, undo and *)
(* redo, the Clear button and the import of a file (loadCanvas).             *)

CursorFiles == {ExportedFile}

NextCursor ==
    \/ \E id \in Ids : WidenFrame(id)
    \/ Undo
    \/ Redo
    \/ ClearButton
    \/ \E parsed \in CursorFiles : handleImport(parsed)

SpecCursor == InitHist /\ [][NextCursor]_vars

-----------------------------------------------------------------------------
(* The tab bar: documents are added, closed, reopened, deleted and chosen.   *)
(* Here the document store carries its closed tabs and the ids of the        *)
(* documents with unsaved changes.                                           *)

MaxDocuments == 3     \* uuids given to documents and to their shapes together
MaxTabs == 2          \* tabs open at once, and tabs closed
MaxAwaits == 1        \* calls of the tab bar that await their answer

\* The document store when the editor opens, nothing found in local storage
TabsStore ==
    Merge(FreshDocumentStore(ActiveDocumentId),
          [closedDocuments |-> <<>>, unsavedChanges |-> <<>>])

\* newDoc.state of addDocument
NewDocumentState ==
    [nodes |-> <<>>, edges |-> <<>>, selectedNodes |-> <<>>, selectedEdges |-> <<>>,
     viewport |-> DEFAULT_VIEWPORT, tool |-> "select", isConnecting |-> FALSE,
     connectionSource |-> NoId, history |-> <<>>, historyIndex |-> -1,
     isDragging |-> FALSE, isPanning |-> FALSE, selectionBox |-> NullBox]

\* `Page ${n}`
PageName(n) == <<"Page 1", "Page 2", "Page 3", "Page 4", "Page 5", "Page 6">>[n]

\* newDoc of addDocument, built before the request is sent
NewDocument(d, newDocId) ==
    [id |-> newDocId, name |-> PageName(Len(d.documents) + 1),
     state |-> NewDocumentState]

OtherIds(ids, id) == LET Other(docId) == docId # id IN SelectSeq(ids, Other)
OtherDocuments(documents, id) ==
    LET Other(doc) == doc.id # id IN SelectSeq(documents, Other)

\* markUnsaved(id)
markUnsaved(d, id) ==
    IF Includes(d.unsavedChanges, id) THEN d
    ELSE [d EXCEPT !.unsavedChanges = Append(@, id)]

\* addDocument after its request: the set((state) => ...) of the try block
\* (saved) and of the catch block
documentAdded(d, newDoc, saved) ==
    [d EXCEPT !.documents = Append(@, newDoc),
              !.activeDocumentId = newDoc.id,
              !.unsavedChanges = IF saved THEN @ ELSE Append(@, newDoc.id),
              !.lastSavedState = (newDoc.id :> NothingSaved) @@ @]

\* removeDocument(id): the tab is closed and kept among the closed documents
removeDocument(d, id) ==
    IF Len(d.documents) <= 1 \/ ~HasDocument(d, id) THEN d
    ELSE [d EXCEPT !.documents = OtherDocuments(@, id),
                   !.closedDocuments = Append(@, FindDocument(d, id)),
                   !.activeDocumentId = IF @ = id THEN d.documents[1].id ELSE @,
                   !.unsavedChanges = OtherIds(@, id)]

\* reopenDocument(id)
reopenDocument(d, id) ==
    IF ~\E i \in DOMAIN d.closedDocuments : d.closedDocuments[i].id = id THEN d
    ELSE [d EXCEPT !.closedDocuments = OtherDocuments(@, id),
                   !.documents = d.documents \o
                       SubSeq(SelectSeq(d.closedDocuments,
                                        LAMBDA doc : doc.id = id), 1, 1),
                   !.activeDocumentId = id]

\* What deleteDocument(id) and deleteActiveDocument() read from the store
\* before their first await
Captured(d) == [documents |-> d.documents, activeDocumentId |-> d.activeDocumentId]

\* The set({...}) of deleteDocument(id) and of deleteActiveDocument() after
\* their requests: documents and activeDocumentId are the captured ones,
\* unsavedChanges and lastSavedState are read again with get().  When no
\* captured document is left, newDocuments[0].id throws a TypeError, which the
\* catch block throws again: nothing is set
documentDeleted(d, id, captured) ==
    IF captured.activeDocumentId = id /\ OtherDocuments(captured.documents, id) = <<>>
    THEN d
    ELSE [d EXCEPT !.documents = OtherDocuments(captured.documents, id),
                   !.activeDocumentId =
                       IF captured.activeDocumentId = id
                       THEN OtherDocuments(captured.documents, id)[1].id
                       ELSE captured.activeDocumentId,
                   !.unsavedChanges = OtherIds(@, id),
                   !.lastSavedState = [key \in DOMAIN @ \ {id} |-> @[key]]]

\* The document store moves to d2 and the session to net2; AppLayout's effect
\* on [activeDocumentId, documents] loads the active document into the canvas
TabsEffect(s2, d2, net2) ==
    /\ documentStore' = d2
    /\ network' = net2
    /\ unsavedChanges' = Includes(d2.unsavedChanges, d2.activeDocumentId)
    /\ canvas' = IF d2.documents = documentStore.documents
                    /\ d2.activeDocumentId = documentStore.activeDocumentId
                 THEN s2
                 ELSE LoadEffect(s2, d2, react.readOnly)
    /\ mounted' = Rendered(mounted, canvas'.nodes)
    /\ UNCHANGED <<pendingUpdate, rt, react>>

\* ... where loadCanvas and clear call debouncedUpdateDocument()
TabsStep(d2, net2) ==
    /\ TabsEffect(canvas, d2, net2)
    /\ docSyncPending' = (docSyncPending \/ canvas' # canvas)
    /\ UNCHANGED bridge

\* The '+' of the tab bar: addDocument() up to its fetch
AddTab ==
    /\ IsAuthenticated(network)
    /\ nextId' = nextId + 1
    /\ IF network.auth = "noToken"
       THEN TabsStep(documentAdded(documentStore,
                         NewDocument(documentStore, nextId), FALSE), network)
       ELSE TabsStep(documentStore,
                [network EXCEPT !.requests = Append(@,
                    [id |-> nextId, method |-> "ADD", caller |-> "addDocument",
                     state |-> NewDocument(documentStore, nextId)])])

\* The POST of addDocument is answered
AddReturns(i, saved) ==
    /\ i \in DOMAIN network.requests
    /\ network.requests[i].method = "ADD"
    /\ TabsStep(documentAdded(documentStore, network.requests[i].state, saved),
                Answered(network, i))
    /\ UNCHANGED nextId

\* The X of a tab, shown while more than one tab is open
CloseTab(id) ==
    /\ Len(documentStore.documents) > 1
    /\ HasDocument(documentStore, id)
    /\ TabsStep(removeDocument(documentStore, id), network)
    /\ UNCHANGED nextId

\* 'Reopen' in the list of closed tabs
ReopenTab(id) ==
    /\ TabsStep(reopenDocument(documentStore, id), network)
    /\ UNCHANGED nextId

\* A click on the name of an open tab: setActiveDocument(id) finds the
\* document in the store and awaits nothing
setActiveDocument(id) ==
    /\ HasDocument(documentStore, id)
    /\ TabsStep([documentStore EXCEPT !.activeDocumentId = id], network)
    /\ UNCHANGED nextId

\* 'Delete' in the confirmation dialog of document id: deleteActiveDocument()
\* or deleteDocument(id) up to the first fetch
ConfirmDelete(id) ==
    /\ HasDocument(documentStore, id)
    /\ UNCHANGED nextId
    /\ IF Len(documentStore.documents) <= 1 \/ network.auth = "noToken"
       THEN TabsStep(documentStore, network)
       ELSE TabsStep(documentStore,
                [network EXCEPT !.requests = Append(@,
                    [id |-> id, method |-> "DELETE",
                     caller |-> IF id = documentStore.activeDocumentId
                                THEN "deleteActiveDocument" ELSE "deleteDocument",
                     state |-> Captured(documentStore)])])

\* The requests of a deletion are answered: removed when the document is gone
\* from the server or was never there, thrown for every other failure
DeleteOutcomes == {"removed", "thrown"}

DeleteReturns(i, outcome) ==
    /\ i \in DOMAIN network.requests
    /\ network.requests[i].method = "DELETE"
    /\ UNCHANGED nextId
    /\ IF outcome = "removed"
       THEN TabsStep(documentDeleted(documentStore, network.requests[i].id,
                                     network.requests[i].state),
                     Answered(network, i))
       ELSE TabsStep(documentStore, Answered(network, i))

\* updateDocumentState(id, state) with the unsavedChanges it returns
documentEdited(d, isAuthenticated, id, state) ==
    IF isAuthenticated /\ hasContentChanged(d, id, state)
    THEN markUnsaved(updateDocumentState(d, isAuthenticated, id, state), id)
    ELSE updateDocumentState(d, isAuthenticated, id, state)

\* handleShapeClick with several tabs: markUnsaved(activeDocumentId) reaches
\* the list of unsaved documents
TabShapeClick(shapeType) ==
    /\ nextId' = nextId + 1
    /\ TabsEffect(addNode(canvas, nextId, shapeType, GridPosition(Len(canvas.nodes))),
                  markUnsaved(documentStore, documentStore.activeDocumentId), network)
    /\ docSyncPending' = TRUE
    /\ UNCHANGED bridge

\* The setTimeout(0) callback queued by updateDocument, with several tabs: the
\* id is the one that was active when the callback was queued
TabUpdateFire ==
    /\ bridge.timeouts # <<>>
    /\ bridge' = [bridge EXCEPT !.timeouts = Tail(@)]
    /\ TabsEffect(canvas,
                  documentEdited(documentStore, IsAuthenticated(network),
                      Head(bridge.timeouts).id, Head(bridge.timeouts).state),
                  AutoSaveScheduled(network, documentStore,
                      Head(bridge.timeouts).id, Head(bridge.timeouts).state))
    /\ docSyncPending' = (docSyncPending \/ canvas' # canvas)
    /\ UNCHANGED nextId

TabSessions == {"authenticated", "noToken"}

InitTabs ==
    /\ canvas = InitCanvas
    /\ pendingUpdate = NoUpdate
    /\ docSyncPending = FALSE
    /\ unsavedChanges = FALSE
    /\ mounted = NoMounted
    /\ nextId = ActiveDocumentId + 1
    /\ rt = Idle
    /\ documentStore = TabsStore
    /\ bridge = [lastDocumentState |-> NoState, timeouts |-> <<>>]
    /\ \E auth \in TabSessions :
           network = [auth |-> auth, autoSave |-> NoTimer, requests |-> <<>>,
                      settled |-> "nothing"]
    /\ react = [readOnly |-> FALSE, notification |-> "", localViewport |-> DEFAULT_VIEWPORT]

\* Bound of the exploration: uuids left for documents and shapes together
RoomForDocument == nextId <= MaxDocuments
RoomForTab == Len(documentStore.documents) < MaxTabs

DocumentIds == 1 .. MaxDocuments

NextTabs ==
    \/ RoomForDocument /\ Len(network.requests) < MaxAwaits /\ AddTab
    \/ \E i \in 1 .. MaxAwaits, saved \in BOOLEAN :
           RoomForTab /\ CanSnapshot /\ AddReturns(i, saved)
    \/ \E id \in DocumentIds :
           Len(documentStore.closedDocuments) < MaxTabs /\ CanSnapshot /\ CloseTab(id)
    \/ \E id \in DocumentIds : RoomForTab /\ CanSnapshot /\ ReopenTab(id)
    \/ \E id \in DocumentIds : CanSnapshot /\ setActiveDocument(id)
    \/ \E id \in DocumentIds : Len(network.requests) < MaxAwaits /\ ConfirmDelete(id)
    \/ \E i \in 1 .. MaxAwaits, outcome \in DeleteOutcomes :
           CanSnapshot /\ DeleteReturns(i, outcome)
    \/ \E shapeType \in ToolbarShapes : RoomForDocument /\ TabShapeClick(shapeType)
    \/ bridge.timeouts = <<>> /\ DocSyncFire
    \/ CanSnapshot /\ TabUpdateFire

SpecTabs == InitTabs /\ [][NextTabs]_vars

-----------------------------------------------------------------------------
(* Autosave with several tabs: one debounced call serves every document.     *)

\* saveDocument after the server accepted the state sent: set((state) => ...)
\* with finalUnsaved
documentSaved(d, id, sent) ==
    [saveSucceeded(d, id, sent) EXCEPT
        !.unsavedChanges = IF hasPendingChanges(d, id, sent)
                           THEN Append(OtherIds(@, id), id) ELSE OtherIds(@, id)]

\* The server accepts the PUT or POST of request i
SaveAccepted(i) ==
    /\ i \in DOMAIN network.requests
    /\ network.requests[i].method \in {"PUT", "POST"}
    /\ TabsStep(documentSaved(documentStore, network.requests[i].id,
                              network.requests[i].state),
                Settled(Answered(network, i), "saved"))
    /\ UNCHANGED nextId

\* The server finds or misses the document of the GET of request i
CheckAnswered(i, status) ==
    /\ i \in DOMAIN network.requests
    /\ network.requests[i].method = "GET"
    /\ TabsStep(documentStore,
                [network EXCEPT !.requests[i].method =
                                    IF status = "ok" THEN "PUT" ELSE "POST"])
    /\ UNCHANGED nextId

\* Every request of a save is answered, and accepted, the saves in the order
\* in which they were sent
SavesSucceed ==
    \E i \in 1 .. MaxRequests :
        /\ i \in DOMAIN network.requests
        /\ \A j \in 1 .. i - 1 : network.requests[j].method = "ADD"
        /\ \/ \E status \in {"ok", "404"} : CheckAnswered(i, status)
           \/ SaveAccepted(i)

SyncTimer == bridge.timeouts = <<>> /\ DocSyncFire

\* A signed-in user with a token
InitAuto == InitTabs /\ network.auth = "authenticated"

NextAuto ==
    \/ RoomForDocument /\ network.requests = <<>> /\ AddTab
    \/ \E i \in 1 .. MaxAwaits : AddReturns(i, TRUE)
    \/ \E id \in DocumentIds : CanSnapshot /\ setActiveDocument(id)
    \/ \E shapeType \in ToolbarShapes : FreshId /\ TabShapeClick(shapeType)
    \/ SyncTimer
    \/ TabUpdateFire
    \/ AutoSaveTimer
    \/ SavesSucceed

\* The timers of the sync bridge and of the autosave fire when they are left
\* alone, and the server answers
SpecAuto ==
    /\ InitAuto /\ [][NextAuto]_vars
    /\ WF_vars(SyncTimer)
    /\ WF_vars(TabUpdateFire)
    /\ WF_vars(AutoSaveTimer)
    /\ WF_vars(SavesSucceed)

-----------------------------------------------------------------------------
(* Properties *)

References(edges, id) ==
    \E i \in DOMAIN edges : edges[i].sourceNodeId = id \/ edges[i].targetNodeId = id

EndpointsExist(nodes, edges) ==
    \A i \in DOMAIN edges : /\ HasNode(nodes, edges[i].sourceNodeId)
                             /\ HasNode(nodes, edges[i].targetNodeId)

\* C1: in every state reachable by the store's add / duplicate / connect /
\* delete / clear / undo / redo operations every edge's sourceNodeId and
\* targetNodeId are ids of nodes of the model, and deleteNode(id) leaves no
\* edge that references id.
C1_NoDanglingEdges ==
    /\ EndpointsExist(canvas.nodes, canvas.edges)
    /\ \A id \in NodeIds(canvas.nodes) :
          ~References(deleteNode(canvas, id).edges, id)

\* A node that an edge of an earlier snapshot referenced has been deleted, and
\* other nodes remain.
C1_Witness ==
    /\ canvas.nodes # <<>>
    /\ canvas.historyIndex = Len(canvas.history) - 1
    /\ canvas.historyIndex >= 1
    /\ Scene(canvas) = HistoryAt(canvas, canvas.historyIndex)
    /\ \E j \in DOMAIN HistoryAt(canvas, canvas.historyIndex - 1).edges :
          ~HasNode(canvas.nodes,
                   HistoryAt(canvas, canvas.historyIndex - 1).edges[j].sourceNodeId)

SamePair(e1, e2) ==
    \/ e1.sourceNodeId = e2.sourceNodeId /\ e1.targetNodeId = e2.targetNodeId
    \/ e1.sourceNodeId = e2.targetNodeId /\ e1.targetNodeId = e2.sourceNodeId

\* C2: no two edges of the model connect the same unordered pair of nodes,
\* whichever path created them (addEdge, click-to-connect, drag-to-connect).
C2_OneEdgePerPair ==
    \A i, j \in DOMAIN canvas.edges :
        i # j => ~SamePair(canvas.edges[i], canvas.edges[j])

\* Ids an addEdge call may name: the ids handed out so far or not yet, and null
CallIds == Ids \cup {NoId}

\* C3: addEdge(s, t) with s = t, or with s or t not the id of a node, leaves
\* the whole store (nodes, edges, selection, history, historyIndex,
\* isConnecting, connectionSource) as it was.
C3_InvalidAddEdgeIsNoOp ==
    \A s \in CallIds, t \in CallIds :
        (s = t \/ ~HasNode(canvas.nodes, s) \/ ~HasNode(canvas.nodes, t))
            => addEdge(canvas, nextId, s, t) = canvas

\* A connection is in progress between existing nodes, an edge exists and an
\* id names no node: self-loops and missing endpoints can both be asked for.
C3_Witness ==
    /\ Len(canvas.nodes) >= 2
    /\ canvas.edges # <<>>
    /\ canvas.isConnecting
    /\ HasNode(canvas.nodes, canvas.connectionSource)
    /\ \E id \in Ids : ~HasNode(canvas.nodes, id)

Width(scene) == scene.nodes[1].size.width

\* The history is within its capacity, its snapshots are in commit order
\* (each is one resize frame after the one before it) and, at the top of the
\* history, the newest snapshot is the scene.
HistoryInOrder ==
    /\ Len(canvas.history) <= HistoryCap
    /\ \A i \in 1 .. Len(canvas.history) - 1 :
          Width(canvas.history[i + 1]) = RAdd(Width(canvas.history[i]), R(1))
    /\ (canvas.history # <<>> /\ canvas.historyIndex = Len(canvas.history) - 1)
          => canvas.history[Len(canvas.history)] = Scene(canvas)

\* A commit on top of a full history evicts exactly the oldest snapshot and
\* appends the new one.
EvictsOldest ==
    (/\ Len(canvas.history) = HistoryCap
     /\ canvas.historyIndex = HistoryCap - 1
     /\ canvas.history' # canvas.history)
        => /\ canvas.history' = Append(Tail(canvas.history), Scene(canvas'))
           /\ canvas.historyIndex' = HistoryCap - 1

\* C4: the history never holds more than 50 snapshots, and every commit made
\* on top of a full history keeps it at exactly 50 by evicting history[0], the
\* order of the survivors preserved: after more than 50 commits in a row
\* history[0] is the snapshot of the 50th-from-last commit.
C4_HistoryCapped == []HistoryInOrder /\ [][EvictsOldest]_vars

\* 52 frames were committed: two snapshots have been evicted.
C4_Witness ==
    /\ Len(canvas.history) = HistoryCap
    /\ canvas.historyIndex = HistoryCap - 1
    /\ Width(canvas) = RAdd(DEFAULT_NODE_SIZE.width, R(HistoryCap + 2))

\* C5: after saveHistory(); mutate(); undo() the scene (nodes, edges and
\* viewport) equals the scene at the saveHistory call, and after a redo() right
\* afterwards it equals the scene just after mutate().
C5_RoundTrip ==
    /\ rt.pc = "undone" => Scene(canvas) = rt.pre
    /\ rt.pc = "redone" => Scene(canvas) = rt.post

\* Every edge of the scene whose endpoints exist carries the anchors getAnchor
\* computes from the endpoints as the scene has them
AnchorsFresh(nodes, edges) ==
    \A i \in DOMAIN edges :
        (HasNode(nodes, edges[i].sourceNodeId) /\ HasNode(nodes, edges[i].targetNodeId))
        => /\ edges[i].sourceAnchor = getAnchor(FindNode(nodes, edges[i].sourceNodeId),
                                                FindNode(nodes, edges[i].targetNodeId))
           /\ edges[i].targetAnchor = getAnchor(FindNode(nodes, edges[i].targetNodeId),
                                                FindNode(nodes, edges[i].sourceNodeId))

\* C6: no stale anchor survives a commit: in every history snapshot pushed
\* while nodes are dragged, edited in the property panel, auto-sized by their
\* text or resized by any of the 8 handles, every edge has sourceAnchor =
\* getAnchor(source, target) and targetAnchor = getAnchor(target, source) for
\* the endpoints' position and size in that snapshot.
C6_NoStaleAnchorAtCommit ==
    \A k \in DOMAIN canvas.history :
        AnchorsFresh(canvas.history[k].nodes, canvas.history[k].edges)

SizeAtLeast(nodes, min) ==
    \A i \in DOMAIN nodes : RLe(min, nodes[i].size.width) /\ RLe(min, nodes[i].size.height)

\* C7: every node of the model has size.width >= 20 and size.height >= 20 in
\* every reachable state, after any mutation (adding, duplicating, updating,
\* handle resize, property-panel size edit, text auto-sizing, loadCanvas /
\* import, undo, redo).
C7_MinimumSize == SizeAtLeast(canvas.nodes, R(20))

ScaleInRange(scale) == RLe(Frac(1, 4), scale) /\ RLe(scale, R(2))

\* C8: viewport.scale lies in [0.25, 2.0] in every reachable state, whichever
\* operation last wrote the viewport (zoom, setViewport, pinch zoom,
\* loadCanvas / import, clear, undo, redo).
C8_ScaleInRange == ScaleInRange(canvas.viewport.scale)

\* scale * (1 + delta), brought into [0.25, 2.0]
Saturated(scale) ==
    IF RLt(R(2), scale) THEN R(2)
    ELSE IF RLt(scale, Frac(1, 4)) THEN Frac(1, 4) ELSE scale

\* C9: from a scale in [0.25, 2.0], any sequence of zoom(delta, center) calls
\* keeps the scale in [0.25, 2.0]; each call multiplies the scale by
\* (1 + delta) and then clamps, so zooming in saturates at 2.0 and zooming out
\* at 0.25.
C9_ZoomSaturates ==
    /\ ScaleInRange(canvas.viewport.scale)
    /\ \A delta \in ZoomDeltas, center \in Pointers :
           zoom(canvas, delta, center).viewport.scale
               = Saturated(RMul(canvas.viewport.scale, RAdd(R(1), delta)))

\* Zoomed in about (400, 300) until the scale saturated
C9_Witness ==
    /\ canvas.viewport.scale = R(2)
    /\ canvas.viewport.x = R(-400)
    /\ canvas.viewport.y = R(-300)

\* world * viewport.scale + (viewport.x, viewport.y)
ToScreen(viewport, world) ==
    Point(RAdd(RMul(world.x, viewport.scale), viewport.x),
          RAdd(RMul(world.y, viewport.scale), viewport.y))

StrictlyInside(scale) == RLt(Frac(1, 4), scale) /\ RLt(scale, R(2))

\* C10: zoom fixed point: after zoom(delta, C) the world coordinate
\* w = (C - (x, y)) / oldScale that was under the screen point C maps back to
\* C, w * newScale + (newX, newY) = C, when the resulting scale is strictly
\* inside [0.25, 2.0].
C10_ZoomFixedPoint ==
    \A delta \in ZoomDeltas, center \in Pointers :
        StrictlyInside(zoom(canvas, delta, center).viewport.scale)
        => ToScreen(zoom(canvas, delta, center).viewport,
                    ToWorld(canvas.viewport, center)) = center

\* Zoomed by 0.1 about (400, 300) from the default viewport
C10_Witness ==
    /\ canvas.viewport.scale = Frac(11, 10)
    /\ canvas.viewport.x = R(-40)
    /\ canvas.viewport.y = R(-30)

\* What getAnchor(a, b) must return in the three cases of the claim
OnAxisX(a, b) == Center(b).y = Center(a).y /\ RLt(Center(a).x, Center(b).x)
OnAxisY(a, b) == Center(b).x = Center(a).x /\ RLt(Center(a).y, Center(b).y)

AnchorCases(a, b) ==
    /\ (a.type = "rectangle" /\ OnAxisX(a, b))
       => getAnchor(a, b) = Point(RAdd(Center(a).x, RDiv(a.size.width, R(2))),
                                  Center(a).y)
    /\ (a.type = "rectangle" /\ OnAxisY(a, b))
       => getAnchor(a, b) = Point(Center(a).x,
                                  RAdd(Center(a).y, RDiv(a.size.height, R(2))))
    /\ Center(a) = Center(b) => getAnchor(a, b) = Center(a)

\* C11: anchor correctness: for a rectangle of width w and height h, getAnchor
\* toward a target on the positive x axis from its centre is centre + (w/2, 0),
\* toward a target on the positive y axis centre + (0, h/2); for every node
\* kind a target whose centre coincides with the node's centre gives the
\* centre itself.
C11_AnchorCorrect ==
    \A i, j \in DOMAIN canvas.nodes : AnchorCases(canvas.nodes[i], canvas.nodes[j])

\* A rectangle wider than high whose target lies straight below it, the edge
\* carrying the anchor in the middle of its lower side
C11_Witness ==
    /\ Len(canvas.nodes) = 2 /\ Len(canvas.edges) = 1
    /\ canvas.nodes[1].type = "rectangle"
    /\ canvas.nodes[1].size.width # canvas.nodes[1].size.height
    /\ OnAxisY(canvas.nodes[1], canvas.nodes[2])
    /\ canvas.edges[1].sourceAnchor
           = Point(Center(canvas.nodes[1]).x,
                   RAdd(canvas.nodes[1].position.y, canvas.nodes[1].size.height))

\* The file has no nodes, no edges or no viewport key
LacksKey(parsed) == {"nodes", "edges", "viewport"} \ DOMAIN parsed # {}

ActiveState(d) == FindDocument(d, d.activeDocumentId).state

\* The import of parsed into the stores as they are: nothing moves when a key
\* is absent; what moves comes from a file with the three keys, its nodes and
\* edges taken when they are arrays and empty otherwise
ImportIsWhole(parsed, isAuthenticated) ==
    /\ LacksKey(parsed)
       => /\ ImportedCanvas(canvas, documentStore, isAuthenticated, parsed) = canvas
          /\ ImportedDocuments(documentStore, isAuthenticated, parsed) = documentStore
    /\ ImportedDocuments(documentStore, isAuthenticated, parsed) # documentStore
       => /\ ~LacksKey(parsed)
          /\ ActiveState(ImportedDocuments(documentStore, isAuthenticated, parsed)).nodes
                = (IF parsed.nodes.array THEN parsed.nodes.value ELSE <<>>)
          /\ ActiveState(ImportedDocuments(documentStore, isAuthenticated, parsed)).edges
                = (IF parsed.edges.array THEN parsed.edges.value ELSE <<>>)
    /\ ImportedCanvas(canvas, documentStore, isAuthenticated, parsed) # canvas
       => /\ ~LacksKey(parsed)
          /\ ImportedCanvas(canvas, documentStore, isAuthenticated, parsed).nodes
                = (IF parsed.nodes.array THEN parsed.nodes.value ELSE <<>>)

\* A step that reports the failure changes neither store
FailureLeavesStores ==
    (react' # react /\ react'.notification = "Failed to import document")
    => UNCHANGED <<canvas, documentStore, unsavedChanges, docSyncPending>>

\* C12: import is all-or-nothing: a file in which nodes, edges or viewport is
\* absent reports failure and leaves the scene model (nodes, edges, viewport,
\* selection, history) and the document store unchanged; only a file with all
\* three keys is adopted, non-array nodes / edges coerced to empty arrays.
C12_ImportAllOrNothing ==
    /\ [](\A parsed \in ImportFiles, isAuthenticated \in BOOLEAN :
              ImportIsWhole(parsed, isAuthenticated))
    /\ [][FailureLeavesStores]_vars

\* An import has failed on a scene that an earlier import had filled
C12_Witness ==
    /\ react.notification = "Failed to import document"
    /\ canvas.nodes # <<>>
    /\ ActiveState(documentStore).nodes = canvas.nodes

\* C13: in the shared (read-only) view no input event changes the canvas
\* store's nodes, edges, viewport, history or historyIndex
C13_ReadOnlyIsolated ==
    [][react.readOnly =>
          /\ canvas'.nodes = canvas.nodes
          /\ canvas'.edges = canvas.edges
          /\ canvas'.viewport = canvas.viewport
          /\ canvas'.history = canvas.history
          /\ canvas'.historyIndex = canvas.historyIndex]_vars

\* C14: while the document stays open, no replacement of the document store's
\* documents array (a push of the sync bridge, a rename of the tab) changes the
\* canvas store's nodes or edges
C14_StoreIsMirror ==
    [][documentStore'.documents # documentStore.documents =>
          canvas'.nodes = canvas.nodes /\ canvas'.edges = canvas.edges]_vars

\* No debounce timer is pending and no deferred updateDocumentState is queued
Quiescent ==
    /\ ~docSyncPending
    /\ pendingUpdate = NoUpdate
    /\ bridge.timeouts = <<>>

\* C15: once the timers have fired, the open document's state in the document
\* store equals the canvas store's nodes, edges, selection and viewport
C15_MirrorCatchesUp ==
    Quiescent => ActiveState(documentStore) = DocumentState(canvas)

IOFailed ==
    /\ Len(network'.requests) < Len(network.requests)
    /\ network'.settled = "failed"

\* C17: a failed I/O call leaves the documents as they were, and a document
\* with unsaved edits stays marked unsaved
C17_FailureKeepsDocuments ==
    [][IOFailed => /\ documentStore'.documents = documentStore.documents
                   /\ unsavedChanges => unsavedChanges']_vars

\* The other selected nodes, in their order
Others(selectedNodes, id) ==
    LET Other(nodeId) == nodeId # id IN SelectSeq(selectedNodes, Other)

\* C18: from any selection, selectNode(id) without the modifier leaves
\* selectedNodes = <<id>> and no edge selected; with the modifier it toggles
\* id and leaves the other selected nodes in place
C18_SelectNode ==
    \A id \in NodeIds(canvas.nodes) :
        /\ selectNode(canvas, id, FALSE).selectedNodes = <<id>>
        /\ selectNode(canvas, id, FALSE).selectedEdges = <<>>
        /\ Includes(selectNode(canvas, id, TRUE).selectedNodes, id)
               = ~Includes(canvas.selectedNodes, id)
        /\ Others(selectNode(canvas, id, TRUE).selectedNodes, id)
               = Others(canvas.selectedNodes, id)

\* No drag is under way and debouncedUpdateNode holds nothing
AtRest == ~canvas.isDragging /\ pendingUpdate = NoUpdate

\* The rectangle has been dragged to (100,300)
DraggedDown == AtRest /\ FindNode(canvas.nodes, 1).position = Pt(100, 300)

\* C19 as stated: with the source node dragged from (100,100) to (100,300)
\* the edge's sourceAnchor has changed and its targetAnchor has not
C19_TargetAnchorUnchanged ==
    DraggedDown =>
        /\ canvas.edges[1].sourceAnchor # ConnectedPair.edges[1].sourceAnchor
        /\ canvas.edges[1].targetAnchor = ConnectedPair.edges[1].targetAnchor

\* C19, amended: moving the source node recomputes both anchors of the edge
\* from the two nodes as they are now; with the rectangle dragged from
\* (100,100) to (100,300) both anchors have changed
C19_BothAnchorsFollow ==
    /\ AtRest =>
          /\ canvas.edges[1].sourceAnchor = getAnchor(FindNode(canvas.nodes, 1),
                                                      FindNode(canvas.nodes, 2))
          /\ canvas.edges[1].targetAnchor = getAnchor(FindNode(canvas.nodes, 2),
                                                      FindNode(canvas.nodes, 1))
    /\ DraggedDown =>
          /\ canvas.edges[1].sourceAnchor # ConnectedPair.edges[1].sourceAnchor
          /\ canvas.edges[1].targetAnchor # ConnectedPair.edges[1].targetAnchor

C19_Witness ==
    /\ DraggedDown
    /\ Len(canvas.history) > Len(ConnectedPair.history)

\* A step that adds or removes a node or an edge (undo and redo move
\* historyIndex over an unchanged history instead)
AddsOrDeletes ==
    /\ canvas'.nodes # canvas.nodes \/ canvas'.edges # canvas.edges
    /\ ~(canvas'.history = canvas.history /\ canvas'.historyIndex # canvas.historyIndex)

\* C20: every add, delete and clear pushes one snapshot, so that right after it
\* history[historyIndex] holds the nodes and edges of the live model
C20_ChangesAreCommitted ==
    [][AddsOrDeletes =>
          /\ canvas'.history = Append(SubSeq(canvas.history, 1, canvas.historyIndex + 1),
                                      Scene(canvas'))
          /\ canvas'.historyIndex = Len(canvas'.history) - 1
          /\ HistoryAt(canvas', canvas'.historyIndex).nodes = canvas'.nodes
          /\ HistoryAt(canvas', canvas'.historyIndex).edges = canvas'.edges]_vars

\* A step of handleSave that sends a request
SaveSent ==
    /\ Len(network'.requests) = Len(network.requests) + 1
    /\ network'.requests[Len(network'.requests)].caller = "toolbar"

\* C21: the state saveDocument sends is the state it was given, field by field
C21_SaveRoundTrip ==
    [][SaveSent =>
          network'.requests[Len(network'.requests)].state = SaveState(canvas)]_vars

\* C22: every history snapshot reflects all node updates issued before it:
\* when saveHistory pushes a snapshot, the update debouncedUpdateNode was
\* given has been applied, so the snapshot's nodes are the store's nodes with
\* nothing left pending.
Snapshotted == canvas'.history # canvas.history

C22_FlushBeforeSnapshot ==
    [][Snapshotted =>
          HistoryAt(canvas', canvas'.historyIndex).nodes
              = flushUpdateNode(canvas', pendingUpdate').nodes]_vars

\* C23: a frame of a resize gesture (a handle is dragged and the node's size
\* changes) pushes no history snapshot: history and historyIndex stay as
\* they are until the handle is released.
ResizeFrame ==
    \E i \in DOMAIN canvas.nodes :
        /\ i \in DOMAIN canvas'.nodes
        /\ canvas'.nodes[i].size # canvas.nodes[i].size

C23_SnapshotOnReleaseOnly ==
    [][ResizeFrame => /\ canvas'.history = canvas.history
                      /\ canvas'.historyIndex = canvas.historyIndex]_vars

\* The position the last drag-move event passed to updateNode: the pending
\* call's, or the stored one once the debounce timer has applied it
LastDragMove(id) ==
    IF pendingUpdate # NoUpdate /\ pendingUpdate.id = id
    THEN pendingUpdate.updates.position
    ELSE FindNode(canvas.nodes, id).position

Pushed(s) == [nodes |-> s.nodes, edges |-> s.edges, viewport |-> s.viewport]

Carries(s, call) ==
    HasNode(s.nodes, call.id) =>
        \A f \in DOMAIN call.updates : FindNode(s.nodes, call.id)[f] = call.updates[f]

\* The pending call is for the same node and supplies every field of call
Coalesces(pending, call) ==
    /\ pending # NoUpdate
    /\ pending.id = call.id
    /\ DOMAIN call.updates \subseteq DOMAIN pending.updates

\* C25: a pending updateNode(A, u) is never lost: after every step it has
\* been applied to A, or the pending call is still one for A that supplies
\* all of u's fields (a later call for the same id and fields took its place);
\* a call for another node or for other fields of A does not drop it.
C25_PendingUpdateSurvives ==
    [][pendingUpdate # NoUpdate =>
          Carries(canvas', pendingUpdate) \/ Coalesces(pendingUpdate', pendingUpdate)]_vars

\* The entries saveHistory keeps in front of the new one: history[0..oldIndex],
\* without its first entry when the list would grow past the cap
KeptEntries(s) ==
    IF s.historyIndex + 2 > HistoryCap
    THEN SubSeq(s.history, 2, s.historyIndex + 1)
    ELSE SubSeq(s.history, 1, s.historyIndex + 1)

\* C26: a commit discards the redo branch: right after it historyIndex is
\* the last index, the entries before the new one are the former
\* history[0..oldIndex] (less the evicted front entry on overflow), and a
\* redo changes nothing.
C26_CommitDiscardsRedo ==
    [][canvas'.history # canvas.history =>
          /\ canvas'.historyIndex = Len(canvas'.history) - 1
          /\ SubSeq(canvas'.history, 1, Len(canvas'.history) - 1) = KeptEntries(canvas)
          /\ redo(canvas') = canvas']_vars

\* The history is full and its first entries have been evicted by commits;
\* the last entry is the live scene and nothing is left to redo
C26_Witness ==
    /\ Len(canvas.history) = HistoryCap
    /\ canvas.historyIndex = HistoryCap - 1
    /\ FindNode(HistoryAt(canvas, 0).nodes, 1).size.width
           = RAdd(DEFAULT_NODE_SIZE.width, R(2))
    /\ HistoryAt(canvas, canvas.historyIndex).nodes = canvas.nodes
    /\ redo(canvas) = canvas

\* C27: node selection and edge selection are mutually exclusive: at most
\* one of selectedNodes and selectedEdges is non-empty.
C27_SelectionExclusive == canvas.selectedNodes = <<>> \/ canvas.selectedEdges = <<>>

\* The edge is selected after a node was added, and thereby selected, from
\* the toolbar
C27_Witness ==
    /\ Len(canvas.nodes) = 3
    /\ canvas.selectedEdges = <<3>>
    /\ canvas.selectedNodes = <<>>

\* The steps that give a connection gesture up
ClickCancels ==
    /\ canvas.tool = "line" /\ canvas.isConnecting /\ canvas.connectionSource # NoId
    /\ \/ \E ctrlKey \in BOOLEAN : NodeClick(canvas.connectionSource, ctrlKey)
       \/ \E worldPos \in TempTargets : handleStageMouseDown(worldPos)

ReleaseCancels ==
    /\ canvas.isDragConnecting
    /\ handleStageMouseUp(NoId) \/ handleStageMouseUp(canvas.connectionSource)

\* C28: giving a connection gesture up discards the transient state
\* (isConnecting, connectionSource, and for a drag connection isDragConnecting
\* and tempTarget) and leaves nodes, edges, history and historyIndex as they
\* were.
C28_CancelKeepsScene ==
    [][/\ ClickCancels \/ ReleaseCancels =>
             /\ ~canvas'.isConnecting
             /\ canvas'.connectionSource = NoId
             /\ canvas'.nodes = canvas.nodes
             /\ canvas'.edges = canvas.edges
             /\ canvas'.history = canvas.history
             /\ canvas'.historyIndex = canvas.historyIndex
       /\ ReleaseCancels =>
             /\ ~canvas'.isDragConnecting
             /\ canvas'.tempTarget = NullPoint]_vars

\* What a click on the source node in connect mode leaves behind: the line
\* tool armed, no connection in progress, two nodes and no edge
C28_Witness ==
    /\ canvas.tool = "line"
    /\ ~canvas.isConnecting /\ canvas.connectionSource = NoId
    /\ ~canvas.isDragConnecting /\ canvas.tempTarget = NullPoint
    /\ Len(canvas.nodes) = 2 /\ canvas.edges = <<>>

\* new holds exactly the elements of old whose index is in kept, unchanged
\* and in the order of old
IsRest(old, new, kept) ==
    /\ Len(new) = Cardinality(kept)
    /\ \A j \in kept : \E i \in DOMAIN new : new[i] = old[j]
    /\ \A i1, i2 \in DOMAIN new :
           i1 < i2 => \E j1, j2 \in kept : j1 < j2 /\ new[i1] = old[j1] /\ new[i2] = old[j2]

Selected(seq, id) == \E k \in DOMAIN seq : seq[k] = id

KeptNodes(s) == {j \in DOMAIN s.nodes : ~Selected(s.selectedNodes, s.nodes[j].id)}

KeptEdges(s) ==
    {j \in DOMAIN s.edges : /\ ~Selected(s.selectedEdges, s.edges[j].id)
                            /\ ~Selected(s.selectedNodes, s.edges[j].sourceNodeId)
                            /\ ~Selected(s.selectedNodes, s.edges[j].targetNodeId)}

\* C29: deleteSelected removes exactly the selected nodes, the selected edges
\* and the edges with an end among the selected nodes; everything else stays,
\* unchanged and in order, and both selections are empty afterwards.
C29_DeleteSelectedExact ==
    [][KeyDelete =>
          /\ IsRest(canvas.nodes, canvas'.nodes, KeptNodes(canvas))
          /\ IsRest(canvas.edges, canvas'.edges, KeptEdges(canvas))
          /\ canvas'.selectedNodes = <<>>
          /\ canvas'.selectedEdges = <<>>]_vars

\* Of three nodes and the edge from the first to the second, the first node
\* was deleted: its edge went with it, the other two nodes are left in order
C29_Witness ==
    /\ nextId = 5
    /\ Len(canvas.nodes) = 2
    /\ canvas.nodes[1].id = 2 /\ canvas.nodes[2].id = 3
    /\ canvas.edges = <<>>
    /\ canvas.selectedNodes = <<>> /\ canvas.selectedEdges = <<>>
    /\ canvas.historyIndex = 1
    /\ Len(HistoryAt(canvas, 0).edges) = 1
    /\ HistoryAt(canvas, 1).nodes = canvas.nodes

\* p lies on the boundary of node's axis-aligned rectangle
OnBoundary(node, p) ==
    LET halfWidth == RDiv(node.size.width, R(2))
        halfHeight == RDiv(node.size.height, R(2))
        offX == RAbs(RSub(p.x, Center(node).x))
        offY == RAbs(RSub(p.y, Center(node).y))
    IN  /\ RLe(offX, halfWidth) /\ RLe(offY, halfHeight)
        /\ offX = halfWidth \/ offY = halfHeight

\* C30: for a rectangle or text node and a target with another centre, in any
\* direction, getAnchor returns a point on the boundary of the node's
\* rectangle: |x - cx| = w/2 or |y - cy| = h/2.
C30_AnchorOnRectangle ==
    \A i, j \in DOMAIN canvas.nodes :
        (/\ canvas.nodes[i].type \in {"rectangle", "text"}
         /\ Center(canvas.nodes[i]) # Center(canvas.nodes[j]))
        => OnBoundary(canvas.nodes[i], getAnchor(canvas.nodes[i], canvas.nodes[j]))

\* C31: the selections only name live objects: each id in selectedNodes is
\* the id of a node of the model, each id in selectedEdges the id of an edge.
C31_SelectionIsLive ==
    /\ \A k \in DOMAIN canvas.selectedNodes :
           \E i \in DOMAIN canvas.nodes : canvas.nodes[i].id = canvas.selectedNodes[k]
    /\ \A k \in DOMAIN canvas.selectedEdges :
           \E i \in DOMAIN canvas.edges : canvas.edges[i].id = canvas.selectedEdges[k]

\* The edge between two nodes was deleted: the snapshot before still has it,
\* the model and the selections have nothing of it
C31_Witness ==
    /\ nextId = 4
    /\ Len(canvas.nodes) = 2
    /\ canvas.edges = <<>>
    /\ canvas.selectedNodes = <<>> /\ canvas.selectedEdges = <<>>
    /\ canvas.historyIndex = 1
    /\ Len(HistoryAt(canvas, 0).edges) = 1
    /\ HistoryAt(canvas, 1).edges = <<>>

\* C32: the connection sub-state is consistent: isConnecting is true exactly
\* when connectionSource is not null.
C32_ConnectingIffSource == canvas.isConnecting <=> canvas.connectionSource # NoId

\* After one connection was completed (an edge exists) a drag connection from
\* a connector is under way
C32_Witness ==
    /\ Len(canvas.edges) = 1
    /\ canvas.isConnecting
    /\ canvas.isDragConnecting
    /\ HasNode(canvas.nodes, canvas.connectionSource)

\* C33: a connectionSource that is not null is the id of a node of the model.
C33_SourceIsLive ==
    canvas.connectionSource # NoId => HasNode(canvas.nodes, canvas.connectionSource)

\* C34: the history cursor is well-formed: -1 <= historyIndex <=
\* history.length - 1, and historyIndex = -1 exactly when the history is empty.
C34_CursorWellFormed ==
    /\ -1 <= canvas.historyIndex
    /\ canvas.historyIndex <= Len(canvas.history) - 1
    /\ canvas.historyIndex = -1 <=> canvas.history = <<>>

\* The history is full, entries have been evicted from its front, and undo
\* has moved the cursor back into it
C34_Witness ==
    /\ Len(canvas.history) = HistoryCap
    /\ canvas.historyIndex = HistoryCap - 3
    /\ HistoryAt(canvas, 0).nodes # <<>>
    /\ FindNode(HistoryAt(canvas, 0).nodes, 1).size.width
           = RAdd(DEFAULT_NODE_SIZE.width, R(3))

\* Nothing is selected
EmptySelection == canvas.selectedNodes = <<>> /\ canvas.selectedEdges = <<>>

\* C35: a delete that removes nothing does not touch the history: the Delete
\* key with an empty selection leaves history and historyIndex unchanged.
C35_EmptyDeleteKeepsHistory ==
    [][EmptySelection /\ KeyDelete =>
          /\ canvas'.history = canvas.history
          /\ canvas'.historyIndex = canvas.historyIndex]_vars

\* C36: every delete is undoable: undo() right after deleteNode(n) gives back
\* the nodes and edges of the state before the delete.
C36_DeleteIsUndoable ==
    [][DeleteButton =>
          /\ undo(canvas').nodes = canvas.nodes
          /\ undo(canvas').edges = canvas.edges]_vars

\* C37: in the document store activeDocumentId is always the id of a document
\* in the list of open documents, whatever tabs were added, closed, reopened,
\* deleted and chosen, and that list is never empty
C37_ActiveDocumentIsOpen ==
    /\ documentStore.documents # <<>>
    /\ HasDocument(documentStore, documentStore.activeDocumentId)

\* The deletion awaited as request i is answered and sets the store
DeletionCompletes(i) ==
    /\ DeleteReturns(i, "removed")
    /\ ~(/\ network.requests[i].state.activeDocumentId = network.requests[i].id
         /\ OtherDocuments(network.requests[i].state.documents,
                           network.requests[i].id) = <<>>)

\* C38: when deleteDocument(id) or deleteActiveDocument() completes after its
\* requests, the list of documents is the list as it stood at that moment
\* without the deleted document: what was added, closed or edited while the
\* requests were in flight is neither dropped, nor brought back, nor reverted
C38_DeletionKeepsConcurrentUpdates ==
    [][\A i \in 1 .. MaxAwaits :
          DeletionCompletes(i) =>
              documentStore'.documents =
                  OtherDocuments(documentStore.documents, network.requests[i].id)]_vars

\* lastSavedState holds the nodes and edges of every open document
AllSaved ==
    \A i \in DOMAIN documentStore.documents :
        ~hasContentChanged(documentStore, documentStore.documents[i].id,
                           documentStore.documents[i].state)

\* C39: in a signed-in session whose saves succeed, once the edits have
\* stopped every document whose nodes or edges differ from lastSavedState is
\* eventually saved, lastSavedState holding its nodes and edges from then on,
\* also when another document was edited within the autosave window
C39_EveryEditIsSaved == <>[]AllSaved

=============================================================================
